---------------------------- MODULE Spec2Model ----------------------------
(***************************************************************************)
(* A model of the persistence layer of the forklift-training quiz          *)
(* application: the JSON file store (modules/data_manager.py), the         *)
(* relational store and its migration (modules/database/*.py) and the      *)
(* import-time selection of the backend, and the migration script          *)
(* (migrate_to_sqlite.py).                                                 *)
(*                                                                         *)
(* The module holds eleven state machines over one set of variables:       *)
(*   SpecFS       the file store used by one process, one call at a time   *)
(*   SpecWrites   the file store, writes only, no fault                    *)
(*   SpecFSConc   the file store with a reader running beside the writer   *)
(*   SpecMig      migrate_data / verify_migration over source files        *)
(*   SpecLoad     module loading, backend flags, the dispatch functions    *)
(*                and initialize_data_files                                *)
(*   SpecOps      the data-access operations of both backends, each one    *)
(*                call, with and without a storage fault                   *)
(*   SpecSessions the relational operations and migrate_data, and the      *)
(*                session each acquires and releases                       *)
(*   SpecQuestions  the question bank of the relational store              *)
(*   SpecStatistics get_score_statistics and get_category_statistics       *)
(*   SpecTwoWriters two processes writing one file at the same time        *)
(*   SpecCli        migrate_to_sqlite.py run as a script                   *)
(***************************************************************************)
EXTENDS Integers, Sequences, FiniteSets, TLC

VARIABLES
    \* ---- the disk and the clock
    fs,         \* path -> text (a sequence of tokens); DOMAIN fs = the files that exist
    clock,      \* datetime.datetime.now(), in whole seconds
    \* ---- write_json_file, one record per writer
    wr,
    \* ---- read_json_file
    rd,
    \* ---- the relational store and the session
    db,         \* the committed tables
    txn,        \* the tables as the open transaction sees them
    pending,    \* objects given to session.add and not yet flushed
    mg,         \* migrate_data: position, statistics, outcome
    vres,       \* verify_migration's last result
    session,    \* the scoped session: is it registered, does it hold a transaction
    oper,       \* the last call of a data-access operation (or run of the
                \* migration script) and its outcome
    \* ---- modules, namespaces and calls
    sysmods,    \* sys.modules: module -> "absent" | "partial" | "loaded"
    ns,         \* module -> name -> the module whose object the name is bound to
    stack,      \* the import stack: frames [mod, pos]
    exc,        \* the exception in flight while the import stack unwinds
    flags,      \* USE_DATABASE of data_manager, auth and admin_db
    env,        \* what the process was started with
    call,       \* a call of a data_manager function, or main() of the script, in progress
    ncalls      \* calls made so far (bounds the behaviours)

vars == <<fs, clock, wr, rd, db, txn, pending, mg, vres, session, oper,
          sysmods, ns, stack, exc, flags, env, call, ncalls>>

fsVars   == <<fs, clock, wr, rd>>
dbVars   == <<db, txn, pending, mg, vres, session, oper>>
loadVars == <<sysmods, ns, stack, exc, flags, env, call>>

(***************************************************************************)
(* Bounds of the model.                                                    *)
(***************************************************************************)
MaxClock == 1          \* the clock ticks at most this many seconds
MaxCalls == 2          \* file-store calls per behaviour
MaxMigrations == 2     \* migrate_data calls per behaviour
RecursionLimit == 3    \* frames a call chain may hold before RecursionError
MaxReloads == 1        \* importlib.reload calls per behaviour

(***************************************************************************)
(* Python values and JSON text.                                            *)
(* A Python value is a record [t, v]; a JSON text is a sequence of tokens  *)
(* [k, v].  A nested JSON object (a user, a question, a score) is carried  *)
(* whole, as one "object" token.                                           *)
(***************************************************************************)
PyNone       == [t |-> "none", v |-> "None"]
PyBool(b)    == [t |-> "bool", v |-> b]
PyInt(n)     == [t |-> "int", v |-> n]
PyStr(s)     == [t |-> "str", v |-> s]
PyObj(r)     == [t |-> "obj", v |-> r]
PyList(s)    == [t |-> "list", v |-> s]
PyTuple(s)   == [t |-> "tuple", v |-> s]
PyDict(s)    == [t |-> "dict", v |-> s]      \* v: a sequence of <<key, value>>
ParseError   == [t |-> "error", v |-> "JSONDecodeError"]

Punct(c)     == [k |-> "punct", v |-> c]
ValueKinds   == {"null", "literal", "number", "string", "object"}
IsValueTok(tok) == tok.k \in ValueKinds

\* faulty variant: every scalar written through str(): numbers come back as strings
TokAsString(x) ==
    CASE x.t = "none" -> [k |-> "null", v |-> "null"]
      [] x.t = "bool" -> [k |-> "string", v |-> ToString(x.v)]
      [] x.t = "int"  -> [k |-> "string", v |-> ToString(x.v)]
      [] x.t = "str"  -> [k |-> "string", v |-> x.v]
      [] x.t = "obj"  -> [k |-> "object", v |-> x.v]

\* json.dump of a scalar
Tok(x) ==
    CASE x.t = "none" -> [k |-> "null", v |-> "null"]
      [] x.t = "bool" -> [k |-> "literal", v |-> x.v]
      [] x.t = "int"  -> [k |-> "number", v |-> x.v]
      [] x.t = "str"  -> [k |-> "string", v |-> x.v]
      [] x.t = "obj"  -> [k |-> "object", v |-> x.v]

\* json.load of a scalar token
UnTok(tok) ==
    CASE tok.k = "null"   -> PyNone
      [] tok.k = "literal" -> PyBool(tok.v)
      [] tok.k = "number" -> PyInt(tok.v)
      [] tok.k = "string" -> PyStr(tok.v)
      [] tok.k = "object" -> PyObj(tok.v)

\* json.dump writes every dictionary key as a string: str(1) for the key 1
KeyTok(key) ==
    [k |-> "string", v |-> IF key.t = "str" THEN key.v ELSE ToString(key.v)]

RECURSIVE DumpPairs(_)
DumpPairs(pairs) ==
    IF pairs = <<>> THEN <<>>
    ELSE <<KeyTok(Head(pairs)[1]), Tok(Head(pairs)[2])>> \o DumpPairs(Tail(pairs))

\* json.dump(data, f, indent=2): the text it writes, token by token
Dumps(x) ==
    CASE x.t \in {"list", "tuple"} ->
            <<Punct("[")>> \o [i \in DOMAIN x.v |-> Tok(x.v[i])] \o <<Punct("]")>>
      [] x.t = "dict" ->
            <<Punct("{")>> \o DumpPairs(x.v) \o <<Punct("}")>>
      [] OTHER -> <<Tok(x)>>

\* a JSON object read into a dict: a repeated key keeps its first place and
\* its last value
RECURSIVE LoadPairs(_, _)
LoadPairs(mid, acc) ==
    IF mid = <<>> THEN acc
    ELSE LET key == UnTok(mid[1])
             val == UnTok(mid[2])
             rest == SubSeq(mid, 3, Len(mid))
         IN  IF \E i \in DOMAIN acc : acc[i][1] = key
             THEN LoadPairs(rest, [i \in DOMAIN acc |->
                                     IF acc[i][1] = key THEN <<key, val>> ELSE acc[i]])
             ELSE LoadPairs(rest, Append(acc, <<key, val>>))

\* json.load(f): the value, or ParseError where json raises JSONDecodeError
Loads(text) ==
    IF Len(text) = 0 THEN ParseError
    ELSE IF Len(text) = 1
         THEN IF IsValueTok(text[1]) THEN UnTok(text[1]) ELSE ParseError
    ELSE LET first == text[1]
             last  == text[Len(text)]
             mid   == SubSeq(text, 2, Len(text) - 1)
         IN  IF /\ first = Punct("[")
                /\ last = Punct("]")
                /\ \A i \in DOMAIN mid : IsValueTok(mid[i])
             THEN PyList([i \in DOMAIN mid |-> UnTok(mid[i])])
             ELSE IF /\ first = Punct("{")
                     /\ last = Punct("}")
                     /\ Len(mid) % 2 = 0
                     /\ \A i \in DOMAIN mid :
                           IF i % 2 = 1 THEN mid[i].k = "string" ELSE IsValueTok(mid[i])
             THEN PyDict(LoadPairs(mid, <<>>))
             ELSE ParseError

(***************************************************************************)
(* Paths.                                                                  *)
(***************************************************************************)
DATA_DIR          == "data"
BACKUP_DIR        == "data/backups"

File(dir, base) == [dir |-> dir, base |-> base, kind |-> "file", ts |-> 0]

USER_DB_FILE   == File(DATA_DIR, "users.json")
QUESTIONS_FILE == File(DATA_DIR, "questions.json")
SCORES_FILE    == File(DATA_DIR, "scores.json")
SETTINGS_FILE  == File(DATA_DIR, "settings.json")

\* faulty variant: no temporary file: the document is written over the target itself
TempFileInPlace(p) == p

\* f"{file_path}.tmp"
TempFile(p) == [p EXCEPT !.kind = "tmp"]

\* os.path.join(BACKUP_DIR, f"{os.path.basename(file_path)}.bak.{now:%Y%m%d%H%M%S}")
BackupFile(p, now) == [dir |-> BACKUP_DIR, base |-> p.base, kind |-> "bak", ts |-> now]

Exists(f, p) == p \in DOMAIN f
Put(f, p, c) == [q \in (DOMAIN f) \cup {p} |-> IF q = p THEN c ELSE f[q]]
Remove(f, p) == [q \in (DOMAIN f) \ {p} |-> f[q]]
NoFiles      == [q \in {} |-> <<>>]

Backups(f)     == {q \in DOMAIN f : q.kind = "bak"}
BackupCount(f) == Cardinality(Backups(f))


(***************************************************************************)
(* The file store: write_json_file and read_json_file.                     *)
(***************************************************************************)
Writers == {1, 2}

IdleWriter ==
    [pc |-> "idle", path |-> SCORES_FILE, data |-> PyNone, todo |-> <<>>,
     ret |-> FALSE, fault |-> "none", preExists |-> FALSE, preText |-> <<>>,
     nbak0 |-> 0, fd |-> "none"]

IdleReader ==
    [pc |-> "idle", path |-> SCORES_FILE, default |-> PyNone, ret |-> PyNone,
     preExists |-> FALSE, preText |-> <<>>, fs0 |-> NoFiles]

\* no file-store call is in progress
Quiet == rd.pc = "idle" /\ \A w \in Writers : wr[w].pc = "idle"

\* the documents written in the model: a list, a dict, and two values json.dump
\* accepts although they are not JSON values (a tuple, a dict keyed by an int)
ListDoc  == PyList(<<PyInt(1), PyStr("1")>>)
DictDoc  == PyDict(<< <<PyStr("a"), PyInt(1)>> >>)
TupleDoc == PyTuple(<<PyInt(1)>>)
IntKeyDoc == PyDict(<< <<PyInt(1), PyStr("a")>> >>)
FSDocs   == {ListDoc, DictDoc, TupleDoc, IntKeyDoc}
\* the documents written while a reader runs beside the writer
ConcDocs == {ListDoc, DictDoc}
Defaults == {PyNone, PyList(<<>>)}

\* a file cut short: what a crashed in-place writer or a hand edit leaves
CorruptText == <<Punct("{"), [k |-> "string", v |-> "a"]>>

\* the path written in the file-store specifications
FSPaths == {SCORES_FILE}

\* write_json_file's except branch: print and return False
\* (fault: the step that raised, kept for the record)
WriteFail(w) ==
    wr' = [wr EXCEPT ![w].pc = "done", ![w].ret = FALSE, ![w].fault = wr[w].pc,
                     ![w].fd = "none"]

\* the call: write_json_file(file_path, data)
WriteCall(w, p, d) ==
    /\ wr[w].pc = "idle"
    /\ ncalls < MaxCalls
    /\ ncalls' = ncalls + 1
    /\ wr' = [wr EXCEPT ![w] =
                [pc |-> "makedirs", path |-> p, data |-> d, todo |-> Dumps(d),
                 ret |-> FALSE, fault |-> "none", preExists |-> Exists(fs, p),
                 preText |-> IF Exists(fs, p) THEN fs[p] ELSE <<>>,
                 nbak0 |-> BackupCount(fs), fd |-> "none"]]
    /\ UNCHANGED <<fs, clock, rd, dbVars, loadVars>>

\* os.makedirs(os.path.dirname(file_path), exist_ok=True)
WriteMakedirs(w, fault) ==
    /\ wr[w].pc = "makedirs"
    /\ IF fault THEN WriteFail(w) ELSE wr' = [wr EXCEPT ![w].pc = "open"]
    /\ UNCHANGED <<fs, clock, rd, ncalls, dbVars, loadVars>>

\* open(temp_file, "w"): the temporary file exists and is empty (a file of
\* that name is truncated, it stays the same file); fd: the name the file
\* the writer holds open has at the moment
WriteOpenTemp(w, fault) ==
    /\ wr[w].pc = "open"
    /\ IF fault
       THEN WriteFail(w) /\ fs' = fs
       ELSE /\ fs' = Put(fs, TempFile(wr[w].path), <<>>)
            /\ wr' = [wr EXCEPT ![w].pc = "dump", ![w].fd = "temp"]
    /\ UNCHANGED <<clock, rd, ncalls, dbVars, loadVars>>

\* what a file reads where nothing was written: the gap a write past the
\* end of a file leaves
Hole == Punct("\\0")

\* write(tok) at the offset off of a file: past the end it leaves a gap, on
\* what is there it writes over it
WriteAt(text, off, tok) ==
    IF off >= Len(text)
    THEN text \o [i \in 1..(off - Len(text)) |-> Hole] \o <<tok>>
    ELSE [text EXCEPT ![off + 1] = tok]

\* json.dump(data, f, indent=2): one token per step, at the offset of the
\* writer's own file object, then the file is closed.  The file is the one
\* the writer opened, whatever its name is by now; one that was replaced has
\* no name any more and what is written to it is not seen again
WriteDump(w, fault) ==
    /\ wr[w].pc = "dump"
    /\ LET file == IF wr[w].fd = "temp" THEN TempFile(wr[w].path) ELSE wr[w].path
           off == Len(Dumps(wr[w].data)) - Len(wr[w].todo)
       IN
       IF fault
       THEN WriteFail(w) /\ fs' = fs
       ELSE IF wr[w].todo = <<>>
       THEN wr' = [wr EXCEPT ![w].pc = "exists", ![w].fd = "none"] /\ fs' = fs
       ELSE /\ fs' = IF wr[w].fd = "unlinked" THEN fs
                     ELSE Put(fs, file, WriteAt(fs[file], off, Head(wr[w].todo)))
            /\ wr' = [wr EXCEPT ![w].todo = Tail(@)]
    /\ UNCHANGED <<clock, rd, ncalls, dbVars, loadVars>>

\* if os.path.exists(file_path):
WriteExists(w) ==
    /\ wr[w].pc = "exists"
    /\ wr' = [wr EXCEPT ![w].pc = IF Exists(fs, wr[w].path) THEN "backup" ELSE "replace"]
    /\ UNCHANGED <<fs, clock, rd, ncalls, dbVars, loadVars>>

\* with open(a, "r") as src, open(b, "w") as dst: dst.write(src.read())
CopyFile(f, a, b) == Put(f, b, f[a])

\* faulty variant: the prior version is moved into the backup directory, not copied
WriteBackupMove(f, p, now) == Remove(CopyFile(f, p, BackupFile(p, now)), p)

\* write_json_file's backup of the prior version, named by the second it is made in
WriteBackupCopy(f, p, now) == CopyFile(f, p, BackupFile(p, now))

\* the backup of the prior version; a failure leaves no backup, or an empty one
WriteBackup(w, fault) ==
    /\ wr[w].pc = "backup"
    /\ \/ /\ fault = "none"
          /\ fs' = WriteBackupCopy(fs, wr[w].path, clock)
          /\ wr' = [wr EXCEPT ![w].pc = "replace"]
       \/ /\ fault = "open"
          /\ fs' = fs
          /\ WriteFail(w)
       \/ /\ fault = "write"
          /\ fs' = Put(fs, BackupFile(wr[w].path, clock), <<>>)
          /\ WriteFail(w)
    /\ UNCHANGED <<clock, rd, ncalls, dbVars, loadVars>>

\* os.replace(src, dst): dst holds src's content and src is gone, in one step
Replace(f, src, dst) == Remove(Put(f, dst, f[src]), src)

\* os.replace(temp_file, file_path); return True
WriteReplace(w, fault) ==
    /\ wr[w].pc = "replace"
    /\ IF fault \/ ~Exists(fs, TempFile(wr[w].path))
       THEN WriteFail(w) /\ fs' = fs
       ELSE /\ fs' = Replace(fs, TempFile(wr[w].path), wr[w].path)
            /\ wr' = [o \in Writers |->
                        IF o = w THEN [wr[w] EXCEPT !.pc = "done", !.ret = TRUE]
                        ELSE IF wr[o].path # wr[w].path THEN wr[o]
                        ELSE [wr[o] EXCEPT !.fd = CASE @ = "temp" -> "target"
                                                     [] @ = "target" -> "unlinked"
                                                     [] OTHER -> @]]
    /\ UNCHANGED <<clock, rd, ncalls, dbVars, loadVars>>

\* the caller has the result
WriteReturn(w) ==
    /\ wr[w].pc = "done"
    /\ wr' = [wr EXCEPT ![w] = IdleWriter]
    /\ UNCHANGED <<fs, clock, rd, ncalls, dbVars, loadVars>>

\* the call: read_json_file(file_path, default)
ReadCall(p, d) ==
    /\ rd.pc = "idle"
    /\ ncalls < MaxCalls
    /\ ncalls' = ncalls + 1
    /\ rd' = [pc |-> "load", path |-> p, default |-> d, ret |-> PyNone,
              preExists |-> Exists(fs, p),
              preText |-> IF Exists(fs, p) THEN fs[p] ELSE <<>>,
              fs0 |-> fs]
    /\ UNCHANGED <<fs, clock, wr, dbVars, loadVars>>

\* if os.path.exists(file_path): return json.load(f) / return default
ReadLoad ==
    /\ rd.pc = "load"
    /\ IF ~Exists(fs, rd.path)
       THEN rd' = [rd EXCEPT !.pc = "done", !.ret = rd.default]
       ELSE LET val == Loads(fs[rd.path]) IN
            IF val.t = "error"
            THEN rd' = [rd EXCEPT !.pc = "quarantine"]
            ELSE rd' = [rd EXCEPT !.pc = "done", !.ret = val]
    /\ UNCHANGED <<fs, clock, wr, ncalls, dbVars, loadVars>>

\* faulty variant: the corrupt file is moved into the backup directory, not copied
QuarantineMove(f, p, now) == Remove(CopyFile(f, p, BackupFile(p, now)), p)

\* read_json_file's copy of a file that does not parse
QuarantineCopy(f, p, now) == CopyFile(f, p, BackupFile(p, now))

\* except json.JSONDecodeError: copy the file to the backup directory, return default
ReadQuarantine ==
    /\ rd.pc = "quarantine"
    /\ fs' = IF Exists(fs, rd.path) THEN QuarantineCopy(fs, rd.path, clock) ELSE fs
    /\ rd' = [rd EXCEPT !.pc = "done", !.ret = rd.default]
    /\ UNCHANGED <<clock, wr, ncalls, dbVars, loadVars>>

ReadReturn ==
    /\ rd.pc = "done"
    /\ rd' = IdleReader
    /\ UNCHANGED <<fs, clock, wr, ncalls, dbVars, loadVars>>

\* a second passes
Tick ==
    /\ clock < MaxClock
    /\ clock' = clock + 1
    /\ UNCHANGED <<fs, wr, rd, ncalls, dbVars, loadVars>>


(***************************************************************************)
(* The relational store: tables, the session's unit of work, the           *)
(* conversions migrate_data applies to the source records.                 *)
(***************************************************************************)
Tables == <<"users", "questions", "scores", "settings">>
EmptyDB == [users |-> {}, questions |-> {}, scores |-> {}, settings |-> {}]
NoPending == [users |-> <<>>, questions |-> <<>>, scores |-> <<>>, settings |-> <<>>]
NoStats == [users |-> 0, questions |-> 0, scores |-> 0, settings |-> 0]

\* a key a source record does not carry
Absent == [t |-> "absent", v |-> "absent"]

\* dict.get(key, default)
Get(rec, key, dflt) == IF rec[key].t = "absent" THEN dflt ELSE rec[key]

\* "key in rec and rec[key]": the key is there and its value is truthy
Truthy(x) ==
    /\ x.t \notin {"absent", "none"}
    /\ ~(x.t = "str" /\ x.v = "")
    /\ ~(x.t = "int" /\ x.v = 0)
    /\ ~(x.t = "bool" /\ x.v = FALSE)

\* now.strftime("%Y-%m-%d %H:%M:%S"), second by second
ClockStamps ==
    <<"2024-01-01 10:00:00", "2024-01-01 10:00:01", "2024-01-01 10:00:02",
      "2024-01-01 10:00:03">>
Strftime(c) == PyStr(ClockStamps[IF c + 1 <= Len(ClockStamps) THEN c + 1 ELSE Len(ClockStamps)])

\* the strings "%Y-%m-%d %H:%M:%S" parses
ValidTimestamps == {ClockStamps[i] : i \in DOMAIN ClockStamps} \cup {"2024-01-02 10:00:00"}

\* datetime.datetime.now()
Now(c) == [t |-> "now", v |-> c]

\* datetime.datetime.strptime(x, "%Y-%m-%d %H:%M:%S"): TypeError for a value
\* that is no string, ValueError for a string of another format
Strptime(x) ==
    IF x.t # "str" THEN [exc |-> "TypeError", val |-> PyNone]
    ELSE IF x.v \in ValidTimestamps
         THEN [exc |-> "none", val |-> [t |-> "datetime", v |-> x.v]]
         ELSE [exc |-> "ValueError", val |-> PyNone]

\* the try/except ValueError around strptime: onBad replaces a bad string
ParseStamp(x, onBad) ==
    IF ~Truthy(x) THEN [exc |-> "none", val |-> PyNone]
    ELSE LET r == Strptime(x) IN
         IF r.exc = "ValueError" THEN [exc |-> "none", val |-> onBad] ELSE r

\* migrate_data's User(...) for one source record
UserRow(username, u, now) ==
    LET ca == ParseStamp(u.created_at, Now(now))
        ll == ParseStamp(u.last_login, PyNone)
    IN  [exc |-> IF ca.exc # "none" THEN ca.exc ELSE ll.exc,
         row |-> [username   |-> username,
                  password   |-> Get(u, "password", PyStr("")),
                  name       |-> Get(u, "name", PyStr("")),
                  role       |-> Get(u, "role", PyStr("operator")),
                  created_at |-> IF Truthy(ca.val) THEN ca.val ELSE Now(now),
                  last_login |-> ll.val]]

\* migrate_data's Question(...) for one source record
QuestionRow(q) ==
    [exc |-> "none",
     row |-> [id          |-> Get(q, "id", PyNone),
              question    |-> Get(q, "question", PyNone),
              options     |-> Get(q, "options", PyNone),
              answer      |-> Get(q, "answer", PyNone),
              explanation |-> Get(q, "explanation", PyNone),
              category    |-> Get(q, "category", PyStr("General")),
              difficulty  |-> Get(q, "difficulty", PyStr("Intermediate"))]]

\* hashlib.md5(f"{username}_{timestamp}".encode()).hexdigest()[:10]: a value
\* that the two formatted fields determine
Md5Id(username, timestamp) == [t |-> "md5", v |-> <<username, timestamp>>]

\* migrate_data's Score(...) for one source record
ScoreRow(sc, now) ==
    LET ts == ParseStamp(sc.timestamp, Now(now))
        given == Get(sc, "id", PyNone)
    IN  [exc |-> ts.exc,
         row |-> [id         |-> IF Truthy(given) THEN given
                                 ELSE Md5Id(Get(sc, "username", PyNone),
                                            Get(sc, "timestamp", PyNone)),
                  username   |-> Get(sc, "username", PyNone),
                  score      |-> Get(sc, "score", PyNone),
                  max_score  |-> Get(sc, "max_score", PyNone),
                  percentage |-> Get(sc, "percentage", PyNone),
                  passed     |-> Get(sc, "passed", PyBool(FALSE)),
                  timestamp  |-> IF Truthy(ts.val) THEN ts.val ELSE Now(now),
                  time_taken |-> Get(sc, "time_taken", PyNone),
                  categories |-> Get(sc, "categories", PyNone)]]

\* migrate_data's Setting(key=key, value=value)
SettingRow(key, value) == [exc |-> "none", row |-> [key |-> key, value |-> value]]

\* the primary key of a row
PKOf(tbl, r) ==
    CASE tbl = "users" -> r.username
      [] tbl = "settings" -> r.key
      [] OTHER -> r.id

\* the columns declared nullable=False
NotNullCols(tbl) ==
    CASE tbl = "users" -> {"password", "name", "role"}
      [] tbl = "questions" -> {"question", "options", "answer", "explanation",
                               "category", "difficulty"}
      [] tbl = "scores" -> {"username", "score", "max_score", "percentage", "passed"}
      [] OTHER -> {}

\* the engine is created without PRAGMA foreign_keys=ON: SQLite does not
\* enforce scores.username -> users.username
FKEnforced == FALSE

MaxOf(S) == IF S = {} THEN 0 ELSE CHOOSE m \in S : \A x \in S : x <= m

\* INSERT of one row: an Integer primary key left NULL takes max(rowid) + 1
WithRowId(rows, tbl, r) ==
    IF tbl = "questions" /\ r.id.t = "none"
    THEN [r EXCEPT !.id = PyInt(MaxOf({x.id.v : x \in rows}) + 1)]
    ELSE r

\* faulty variant: the primary key is not checked
InsertOKNoKey(t, tbl, r) ==
    /\ \A c \in NotNullCols(tbl) : r[c].t # "none"
    /\ (FKEnforced /\ tbl = "scores") => \E u \in t.users : u.username = r.username

\* the constraints an INSERT checks
InsertOK(t, tbl, r) ==
    /\ \A c \in NotNullCols(tbl) : r[c].t # "none"
    /\ \A x \in t[tbl] : PKOf(tbl, x) # PKOf(tbl, r)
    /\ (FKEnforced /\ tbl = "scores") => \E u \in t.users : u.username = r.username

\* faulty variant: INSERT OR IGNORE: a row that breaks a constraint is skipped
RECURSIVE FlushRowsIgnoring(_, _, _)
FlushRowsIgnoring(t, tbl, seq) ==
    IF seq = <<>> THEN [ok |-> TRUE, db |-> t]
    ELSE LET r == WithRowId(t[tbl], tbl, Head(seq)) IN
         IF InsertOK(t, tbl, r)
         THEN FlushRowsIgnoring([t EXCEPT ![tbl] = @ \cup {r}], tbl, Tail(seq))
         ELSE FlushRowsIgnoring(t, tbl, Tail(seq))

\* the flush of one table's pending objects, in the order they were added;
\* the first INSERT that fails raises IntegrityError
RECURSIVE FlushRows(_, _, _)
FlushRows(t, tbl, seq) ==
    IF seq = <<>> THEN [ok |-> TRUE, db |-> t]
    ELSE LET r == WithRowId(t[tbl], tbl, Head(seq)) IN
         IF InsertOK(t, tbl, r)
         THEN FlushRows([t EXCEPT ![tbl] = @ \cup {r}], tbl, Tail(seq))
         ELSE [ok |-> FALSE, db |-> t]

\* session.flush(): users first (scores depend on them), then the rest
RECURSIVE FlushFrom(_, _, _)
FlushFrom(t, pend, i) ==
    IF i > Len(Tables) THEN [ok |-> TRUE, db |-> t]
    ELSE LET r == FlushRows(t, Tables[i], pend[Tables[i]]) IN
         IF r.ok THEN FlushFrom(r.db, pend, i + 1) ELSE r

Flush(t, pend) == FlushFrom(t, pend, 1)

\* faulty variant: no rollback: what the failed flush had inserted stays
RollbackKeepsFlushed(committed, inTxn) == inTxn

\* session.rollback(): the tables are what was last committed
Rollback(committed, inTxn) == committed

\* faulty variant: a file that does not parse yields None, not the default
ReadJsonNone(f, p, d, now) ==
    IF ~Exists(f, p) THEN [ret |-> d, fs |-> f]
    ELSE LET val == Loads(f[p]) IN
         IF val.t = "error"
         THEN [ret |-> PyNone, fs |-> QuarantineCopy(f, p, now)]
         ELSE [ret |-> val, fs |-> f]

\* read_json_file as one call of the calling process: the value and the disk
ReadJson(f, p, d, now) ==
    IF ~Exists(f, p) THEN [ret |-> d, fs |-> f]
    ELSE LET val == Loads(f[p]) IN
         IF val.t = "error"
         THEN [ret |-> d, fs |-> QuarantineCopy(f, p, now)]
         ELSE [ret |-> val, fs |-> f]

\* the scoped_session registry holds no session, no connection is checked out
NoSession == [registered |-> FALSE, intxn |-> FALSE]

\* get_db_session(): Session() hands out the registered session, or registers
\* a new one
GetDbSession(s) == [s EXCEPT !.registered = TRUE]

\* the first query or flush of a session checks a connection out and begins
\* a transaction; commit and rollback end it
BeginTxn(s) == [s EXCEPT !.intxn = TRUE]
EndTxn(s) == [s EXCEPT !.intxn = FALSE]

\* faulty variant: the registry is never cleared
CloseKeepsSession(s) == s

\* close_db_session(): Session.remove() closes the registered session, if
\* there is one, and clears the registry
CloseDbSession(s) == IF s.registered THEN NoSession ELSE s

\* no call of a data-access operation yet
NoOp ==
    [fn |-> "none", backend |-> "none", arg |-> <<>>, ret |-> PyNone, exc |-> "none",
     fault |-> FALSE, db0 |-> EmptyDB, fs0 |-> NoFiles, now |-> 0]

IdleMigration ==
    [pc |-> "idle", stats |-> NoStats, ret |-> "none", err |-> "none",
     injected |-> FALSE, rolled |-> 0, n |-> 0, db0 |-> EmptyDB, fs0 |-> NoFiles]

NoVerification ==
    [done |-> FALSE, success |-> FALSE, raised |-> FALSE,
     json |-> NoStats, db |-> NoStats, n |-> 0]

DBIdle ==
    /\ db = EmptyDB
    /\ txn = EmptyDB
    /\ pending = NoPending
    /\ mg = IdleMigration
    /\ session = NoSession
    /\ oper = NoOp
    /\ vres = NoVerification

(***************************************************************************)
(* Modules and their import statements.                                    *)
(* A module body is a sequence of statements; a statement of a try block   *)
(* carries in "fail" the place of its except ImportError clause.           *)
(***************************************************************************)
Modules == {"data_manager", "auth", "database", "connection", "models",
            "operations", "migrate", "migrate_to_sqlite", "admin_db"}

\* the modules of the package modules/database; importing one imports the
\* package first
Parent(m) ==
    IF m \in {"connection", "models", "operations", "migrate"} THEN "database" ELSE "none"

PathNames == {"USER_DB_FILE", "QUESTIONS_FILE", "SCORES_FILE", "SETTINGS_FILE", "BACKUP_DIR"}

\* the names data_manager imports from database.operations
OperationsImported ==
    {"get_all_users", "get_user", "save_user", "delete_user",
     "get_all_questions", "get_question", "save_questions", "add_question",
     "update_question", "delete_question",
     "get_all_scores", "get_user_scores", "save_quiz_score", "clear_all_scores",
     "clear_user_scores",
     "get_all_settings", "save_settings", "get_setting", "set_setting"}

OperationsDefs == OperationsImported \cup {"update_user_login"}

\* the functions data_manager defines after its import block
DataManagerDefs ==
    {"read_json_file", "write_json_file", "initialize_data_files",
     "load_users", "load_questions", "load_scores", "load_settings",
     "save_users", "save_questions", "save_scores", "save_settings",
     "save_quiz_score", "get_user_scores", "clear_all_scores", "clear_user_scores"}

ConnectionDefs == {"get_db_session", "close_db_session", "init_db"}
ModelsDefs     == {"Base", "User", "Question", "Score", "Setting"}
MigrateDefs    == {"migrate_data", "verify_migration"}
ScriptDefs     == {"create_backup", "migrate", "main"}
AdminDbDefs    == {"database_management"}

AllNames ==
    PathNames \cup OperationsDefs \cup DataManagerDefs \cup ConnectionDefs
        \cup ModelsDefs \cup MigrateDefs \cup ScriptDefs \cup AdminDbDefs
        \cup {"hash_password"}

\* statements
Def(names)              == [op |-> "def", mod |-> "none", names |-> names, val |-> "unset", fail |-> 0, skip |-> 0]
From(m, names, fail, skip) == [op |-> "from", mod |-> m, names |-> names, val |-> "unset", fail |-> fail, skip |-> skip]
Lib(fail)               == [op |-> "lib", mod |-> "sqlalchemy", names |-> {}, val |-> "unset", fail |-> fail, skip |-> 0]
SetFlag(val, skip)      == [op |-> "flag", mod |-> "none", names |-> {}, val |-> val, fail |-> 0, skip |-> skip]
Exit                    == [op |-> "exit", mod |-> "none", names |-> {}, val |-> "unset", fail |-> 0, skip |-> 0]
CreateAll               == [op |-> "create_all", mod |-> "none", names |-> {}, val |-> "unset", fail |-> 0, skip |-> 0]

DataManagerBody ==
    << Def(PathNames),
       From("operations", OperationsImported, 4, 0),
       SetFlag("True", 1),
       SetFlag("False", 0),
       Def(DataManagerDefs) >>

AuthBody ==
    << From("data_manager", {"load_users", "save_users"}, 0, 0),
       From("operations", {"get_user", "save_user", "update_user_login"}, 5, 0),
       From("connection", {"get_db_session", "close_db_session"}, 5, 0),
       SetFlag("True", 1),
       SetFlag("False", 0),
       Def({"hash_password"}) >>

DatabaseBody ==
    << From("connection", ConnectionDefs, 0, 0),
       From("models", {"User", "Question", "Score", "Setting"}, 0, 0) >>

\* connection.py creates the engine and the tables when it is imported
ConnectionBody ==
    << Lib(0), From("models", {"Base"}, 0, 0), CreateAll, Def(ConnectionDefs) >>

ModelsBody == << Lib(0), Def(ModelsDefs) >>

OperationsBody ==
    << Lib(0),
       From("connection", {"get_db_session", "close_db_session"}, 0, 0),
       From("models", {"User", "Question", "Score", "Setting"}, 0, 0),
       From("auth", {"hash_password"}, 0, 0),
       Def(OperationsDefs) >>

MigrateBody ==
    << Lib(0),
       From("connection", ConnectionDefs, 0, 0),
       From("models", {"User", "Question", "Score", "Setting"}, 0, 0),
       From("data_manager", (PathNames \ {"BACKUP_DIR"}) \cup {"read_json_file"}, 0, 0),
       Def(MigrateDefs) >>

ScriptBody ==
    << From("connection", {"init_db"}, 4, 0),
       From("migrate", MigrateDefs, 4, 0),
       From("data_manager", PathNames, 4, 1),
       Exit,
       Def(ScriptDefs) >>

\* pages/admin_db.py: the third module with a USE_DATABASE of its own
AdminDbBody ==
    << From("connection", {"get_db_session", "close_db_session"}, 4, 0),
       From("migrate", MigrateDefs, 4, 0),
       SetFlag("True", 1),
       SetFlag("False", 0),
       Def(AdminDbDefs) >>

\* what the interpreter was asked to import
MainBody == << From(env.entry, {}, 0, 0) >>

Body(m) ==
    CASE m = "data_manager" -> DataManagerBody
      [] m = "auth" -> AuthBody
      [] m = "database" -> DatabaseBody
      [] m = "connection" -> ConnectionBody
      [] m = "models" -> ModelsBody
      [] m = "operations" -> OperationsBody
      [] m = "migrate" -> MigrateBody
      [] m = "migrate_to_sqlite" -> ScriptBody
      [] m = "admin_db" -> AdminDbBody
      [] m = "__main__" -> MainBody

\* the namespace of a module whose body has not run
Unbound == [n \in AllNames |-> "unbound"]

IdleCall ==
    [pc |-> "idle", fn |-> "none", depth |-> 0, ops |-> 0, ret |-> "none", useDb |-> FALSE]

LoadIdle ==
    /\ sysmods = [m \in Modules |-> "absent"]
    /\ ns = [m \in Modules |-> Unbound]
    /\ stack = <<>>
    /\ exc = "none"
    /\ flags = [data_manager |-> "unset", auth |-> "unset", admin_db |-> "unset"]
    /\ env = [sqlalchemy |-> TRUE, entry |-> "none", reloads |-> 0]
    /\ call = IdleCall

(***************************************************************************)
(* The specifications of the file store.                                   *)
(***************************************************************************)
\* the files a behaviour may start with: each path absent, holding "[]", or corrupt
InitialTexts == {Dumps(PyList(<<>>)), CorruptText}
InitialDisks ==
    UNION {[S -> InitialTexts] : S \in SUBSET FSPaths}

InitFS ==
    /\ fs \in InitialDisks
    /\ clock = 0
    /\ wr = [w \in Writers |-> IdleWriter]
    /\ rd = IdleReader
    /\ ncalls = 0
    /\ DBIdle
    /\ LoadIdle

\* one process: a call starts only when no other call is in progress
NextFS ==
    \/ \E p \in FSPaths, d \in FSDocs : Quiet /\ WriteCall(1, p, d)
    \/ \E fault \in BOOLEAN : WriteMakedirs(1, fault)
    \/ \E fault \in BOOLEAN : WriteOpenTemp(1, fault)
    \/ \E fault \in BOOLEAN : WriteDump(1, fault)
    \/ WriteExists(1)
    \/ \E fault \in {"none", "open", "write"} : WriteBackup(1, fault)
    \/ \E fault \in BOOLEAN : WriteReplace(1, fault)
    \/ WriteReturn(1)
    \/ \E p \in FSPaths, d \in Defaults : Quiet /\ ReadCall(p, d)
    \/ ReadLoad
    \/ ReadQuarantine
    \/ ReadReturn
    \/ Tick

SpecFS == InitFS /\ [][NextFS]_vars

\* one process that only writes, on a disk that does not fail
NextWrites ==
    \/ \E p \in FSPaths, d \in FSDocs : Quiet /\ WriteCall(1, p, d)
    \/ WriteMakedirs(1, FALSE)
    \/ WriteOpenTemp(1, FALSE)
    \/ WriteDump(1, FALSE)
    \/ WriteExists(1)
    \/ WriteBackup(1, "none")
    \/ WriteReplace(1, FALSE)
    \/ WriteReturn(1)
    \/ Tick

SpecWrites == InitFS /\ [][NextWrites]_vars

\* a reader in another process runs beside the writer
NextFSConc ==
    \/ \E p \in FSPaths, d \in ConcDocs : WriteCall(1, p, d)
    \/ \E fault \in BOOLEAN : WriteMakedirs(1, fault)
    \/ \E fault \in BOOLEAN : WriteOpenTemp(1, fault)
    \/ \E fault \in BOOLEAN : WriteDump(1, fault)
    \/ WriteExists(1)
    \/ \E fault \in {"none", "open", "write"} : WriteBackup(1, fault)
    \/ \E fault \in BOOLEAN : WriteReplace(1, fault)
    \/ WriteReturn(1)
    \/ \E p \in FSPaths, d \in Defaults : ReadCall(p, d)
    \/ ReadLoad
    \/ ReadQuarantine
    \/ ReadReturn
    \/ Tick

SpecFSConc == InitFS /\ [][NextFSConc]_vars

(***************************************************************************)
(* migrate_data and verify_migration.                                      *)
(***************************************************************************)
SourceFile(tbl) ==
    CASE tbl = "users" -> USER_DB_FILE
      [] tbl = "questions" -> QUESTIONS_FILE
      [] tbl = "scores" -> SCORES_FILE
      [] tbl = "settings" -> SETTINGS_FILE

\* the default handed to read_json_file: {} for users and settings, [] otherwise
DefaultOf(tbl) ==
    IF tbl \in {"users", "settings"} THEN PyDict(<<>>) ELSE PyList(<<>>)

AfterPhase(tbl) ==
    CASE tbl = "users" -> "questions"
      [] tbl = "questions" -> "scores"
      [] tbl = "scores" -> "settings"
      [] tbl = "settings" -> "commit"

\* the exception of x.get(...) / "key" in x for an x that is no dict
NoDict(x) == IF x.t \in {"none", "int", "bool"} THEN "TypeError" ELSE "AttributeError"

\* what the for statement of a phase iterates over: data.items() for users
\* and settings, data itself for questions and scores (a dict yields its keys)
Items(tbl, data) ==
    IF tbl \in {"users", "settings"}
    THEN IF data.t = "dict" THEN [exc |-> "none", items |-> data.v]
         ELSE [exc |-> "AttributeError", items |-> <<>>]
    ELSE CASE data.t \in {"list", "tuple"} -> [exc |-> "none", items |-> data.v]
           [] data.t = "dict" ->
                [exc |-> "none", items |-> [i \in DOMAIN data.v |-> data.v[i][1]]]
           [] OTHER -> [exc |-> "TypeError", items |-> <<>>]

\* the body of a phase's loop for one item: the object given to session.add
RowOf(tbl, item, now) ==
    CASE tbl = "users" ->
            IF item[2].t # "obj" THEN [exc |-> NoDict(item[2]), row |-> <<>>]
            ELSE UserRow(item[1], item[2].v, now)
      [] tbl = "questions" ->
            IF item.t # "obj" THEN [exc |-> NoDict(item), row |-> <<>>]
            ELSE QuestionRow(item.v)
      [] tbl = "scores" ->
            IF item.t # "obj" THEN [exc |-> NoDict(item), row |-> <<>>]
            ELSE ScoreRow(item.v, now)
      [] tbl = "settings" -> SettingRow(item[1], item[2])

\* a phase's loop: the rows added before the first exception, and the exception
RECURSIVE Rows(_, _, _, _)
Rows(tbl, items, now, acc) ==
    IF items = <<>> THEN [exc |-> "none", rows |-> acc]
    ELSE LET r == RowOf(tbl, Head(items), now) IN
         IF r.exc # "none" THEN [exc |-> r.exc, rows |-> acc]
         ELSE Rows(tbl, Tail(items), now, Append(acc, r.row))

RowCount(t) ==
    Cardinality(t.users) + Cardinality(t.questions)
        + Cardinality(t.scores) + Cardinality(t.settings)

\* migrate_data is called: init_db(), stats, get_db_session()
MigrateCall ==
    /\ mg.pc \in {"idle", "done"}
    /\ mg.n < MaxMigrations
    /\ Quiet
    /\ mg' = [pc |-> "users", stats |-> NoStats, ret |-> "none", err |-> "none",
              injected |-> FALSE, rolled |-> 0, n |-> mg.n + 1,
              db0 |-> db, fs0 |-> fs]
    /\ txn' = db
    /\ pending' = NoPending
    /\ session' = GetDbSession(session)
    /\ UNCHANGED <<db, vres, oper, fsVars, ncalls, loadVars>>

\* one entity's pass: if the file exists, read it and add one object per
\* record; fault: the open of the file fails (read_json_file lets OSError out)
MigratePhase(tbl, fault) ==
    /\ mg.pc = tbl
    /\ IF ~Exists(fs, SourceFile(tbl))
       THEN /\ ~fault
            /\ mg' = [mg EXCEPT !.pc = AfterPhase(tbl)]
            /\ UNCHANGED <<fs, pending>>
       ELSE IF fault
       THEN /\ mg' = [mg EXCEPT !.pc = "except", !.err = "OSError", !.injected = TRUE]
            /\ UNCHANGED <<fs, pending>>
       ELSE LET rj  == ReadJson(fs, SourceFile(tbl), DefaultOf(tbl), clock)
                it  == Items(tbl, rj.ret)
                res == Rows(tbl, it.items, clock, <<>>)
                e   == IF it.exc # "none" THEN it.exc ELSE res.exc
            IN  /\ fs' = rj.fs
                /\ pending' = [pending EXCEPT ![tbl] = @ \o res.rows]
                /\ mg' = [mg EXCEPT !.stats[tbl] = @ + Len(res.rows),
                                    !.pc = IF e = "none" THEN AfterPhase(tbl) ELSE "except",
                                    !.err = e]
    /\ UNCHANGED <<db, txn, vres, session, oper, clock, wr, rd, ncalls, loadVars>>

MigrateUsers(fault)     == MigratePhase("users", fault)
MigrateQuestions(fault) == MigratePhase("questions", fault)
MigrateScores(fault)    == MigratePhase("scores", fault)
MigrateSettings(fault)  == MigratePhase("settings", fault)

\* session.commit(): flush the pending objects, then COMMIT; fault: the
\* database refuses the transaction (OperationalError), nothing flushed
MigrateCommit(fault) ==
    /\ mg.pc = "commit"
    /\ IF fault
       THEN /\ mg' = [mg EXCEPT !.pc = "except", !.err = "OperationalError",
                                !.injected = TRUE]
            /\ session' = BeginTxn(session)
            /\ UNCHANGED <<db, txn, pending>>
       ELSE LET r == Flush(txn, pending) IN
            /\ txn' = r.db
            /\ pending' = NoPending
            /\ IF r.ok
               THEN /\ db' = r.db
                    /\ session' = EndTxn(BeginTxn(session))
                    /\ mg' = [mg EXCEPT !.pc = "finally", !.ret = "returned"]
               ELSE /\ db' = db
                    /\ session' = BeginTxn(session)
                    /\ mg' = [mg EXCEPT !.pc = "except", !.err = "IntegrityError"]
    /\ UNCHANGED <<vres, oper, fsVars, ncalls, loadVars>>

\* except Exception as e: session.rollback(); raise e
MigrateExcept ==
    /\ mg.pc = "except"
    /\ txn' = Rollback(db, txn)
    /\ pending' = NoPending
    /\ mg' = [mg EXCEPT !.pc = "finally", !.ret = "raised",
                        !.rolled = RowCount(txn) - RowCount(db)]
    /\ session' = EndTxn(session)
    /\ UNCHANGED <<db, vres, oper, fsVars, ncalls, loadVars>>

\* finally: close_db_session(); the connection goes back reset
MigrateFinally ==
    /\ mg.pc = "finally"
    /\ txn' = db
    /\ pending' = NoPending
    /\ mg' = [mg EXCEPT !.pc = "done"]
    /\ session' = CloseDbSession(session)
    /\ UNCHANGED <<db, vres, oper, fsVars, ncalls, loadVars>>

\* faulty variant: every document counts as empty
LenOfNothing(x) == 0

\* len(data) of verify_migration
LenOf(x) == IF x.t \in {"list", "tuple", "dict"} THEN Len(x.v) ELSE -1

\* verify_migration, whole, called as the migration script calls it, after
\* migrate_data: count the records of each source that exists, count the
\* rows of each table, compare
VerifyCall ==
    /\ mg.pc = "done"
    /\ Quiet
    /\ ~(vres.done /\ vres.n = mg.n)
    /\ LET count(f, tbl) ==
               IF Exists(f, SourceFile(tbl))
               THEN LET rj == ReadJson(f, SourceFile(tbl), DefaultOf(tbl), clock)
                    IN  [n |-> LenOf(rj.ret), fs |-> rj.fs]
               ELSE [n |-> 0, fs |-> f]
           cu == count(fs, "users")
           cq == count(cu.fs, "questions")
           cs == count(cq.fs, "scores")
           ct == count(cs.fs, "settings")
           json == [users |-> cu.n, questions |-> cq.n, scores |-> cs.n, settings |-> ct.n]
           rows == [users |-> Cardinality(db.users), questions |-> Cardinality(db.questions),
                    scores |-> Cardinality(db.scores), settings |-> Cardinality(db.settings)]
           typeError == \E e \in DOMAIN json : json[e] < 0
       IN  /\ fs' = IF typeError THEN fs ELSE ct.fs
           /\ vres' = [done |-> TRUE,
                       success |-> ~typeError /\ \A e \in DOMAIN json : json[e] = rows[e],
                       raised |-> typeError,
                       json |-> json, db |-> rows, n |-> mg.n]
    /\ session' = CloseDbSession(BeginTxn(GetDbSession(session)))
    /\ UNCHANGED <<db, txn, pending, mg, oper, clock, wr, rd, ncalls, loadVars>>

(***************************************************************************)
(* The source documents a migration may find.                              *)
(***************************************************************************)
T1 == PyStr("2024-01-01 10:00:00")
T2 == PyStr("2024-01-02 10:00:00")
BadFormat == PyStr("01/02/2024")

UserRec(password, created_at, last_login) ==
    PyObj([password |-> password, name |-> PyStr("n"), role |-> Absent,
           created_at |-> created_at, last_login |-> last_login])
QuestionRec(id, explanation) ==
    PyObj([id |-> id, question |-> PyStr("q"),
           options |-> PyList(<<PyStr("a"), PyStr("b")>>), answer |-> PyInt(0),
           explanation |-> explanation, category |-> Absent, difficulty |-> PyStr("Easy")])
ScoreRec(id, username, timestamp) ==
    PyObj([id |-> id, username |-> PyStr(username), score |-> PyInt(8),
           max_score |-> PyInt(10), percentage |-> PyInt(80), passed |-> PyBool(TRUE),
           timestamp |-> timestamp, time_taken |-> PyNone, categories |-> Absent])

\* users.json: one good user; two users with timestamps of another format;
\* a user after whom comes one whose password is null
UsersDocs ==
    { PyDict(<< <<PyStr("alice"), UserRec(PyStr("h"), T1, PyNone)>> >>),
      PyDict(<< <<PyStr("alice"), UserRec(PyStr("h"), T1, BadFormat)>>,
                <<PyStr("bob"), UserRec(PyStr("h"), BadFormat, Absent)>> >>),
      PyDict(<< <<PyStr("alice"), UserRec(PyStr("h"), Absent, Absent)>>,
                <<PyStr("bob"), UserRec(PyNone, T1, Absent)>> >>) }

\* questions.json: ids 1, 2 and none; no ids at all
QuestionsDocs ==
    { PyList(<<QuestionRec(PyInt(1), PyStr("e")), QuestionRec(PyInt(2), PyStr("e")),
               QuestionRec(Absent, PyStr("e"))>>),
      PyList(<<QuestionRec(Absent, PyStr("e")), QuestionRec(Absent, PyStr("e"))>>) }

\* scores.json: with and without id; two without id of one user and second;
\* a score of nobody with a timestamp of another format; a timestamp that is
\* a number
ScoresDocs ==
    { PyList(<<ScoreRec(PyStr("s1"), "alice", T1), ScoreRec(Absent, "alice", T2)>>),
      PyList(<<ScoreRec(Absent, "alice", T1), ScoreRec(Absent, "alice", T1)>>),
      PyList(<<ScoreRec(PyStr("s1"), "ghost", BadFormat)>>),
      PyList(<<ScoreRec(PyStr("s1"), "alice", T1), ScoreRec(PyStr("s2"), "alice", PyInt(5))>>) }

SettingsDocs ==
    { PyDict(<< <<PyStr("company_name"), PyStr("c")>>, <<PyStr("passing_score"), PyInt(80)>>,
                <<PyStr("track_categories"), PyBool(TRUE)>>,
                <<PyStr("last_updated"), T1>> >>) }

\* the sources that may hold text json.load rejects
Corruptible == {"scores"}

SourceTexts(tbl) ==
    LET docs == CASE tbl = "users" -> UsersDocs
                  [] tbl = "questions" -> QuestionsDocs
                  [] tbl = "scores" -> ScoresDocs
                  [] tbl = "settings" -> SettingsDocs
    IN  {Dumps(d) : d \in docs} \cup (IF tbl \in Corruptible THEN {CorruptText} ELSE {})

SourcePaths == {SourceFile(Tables[i]) : i \in DOMAIN Tables}
TableOf(p) == CHOOSE tbl \in {Tables[i] : i \in DOMAIN Tables} : SourceFile(tbl) = p

\* a source file: not there, or there with one of its texts
Sources(tbl) ==
    {[present |-> FALSE, text |-> <<>>]}
        \cup {[present |-> TRUE, text |-> x] : x \in SourceTexts(tbl)}

DiskOf(c) ==
    [p \in {q \in SourcePaths : c[TableOf(q)].present} |-> c[TableOf(p)].text]

\* every subset of the four files, each with one of its texts
SourceDisks ==
    {DiskOf([users |-> u, questions |-> q, scores |-> s, settings |-> t]) :
        u \in Sources("users"), q \in Sources("questions"),
        s \in Sources("scores"), t \in Sources("settings")}

InitMig ==
    /\ fs \in SourceDisks
    /\ clock = 0
    /\ wr = [w \in Writers |-> IdleWriter]
    /\ rd = IdleReader
    /\ ncalls = 0
    /\ DBIdle
    /\ LoadIdle

NextMig ==
    \/ MigrateCall
    \/ \E fault \in BOOLEAN : MigrateUsers(fault)
    \/ \E fault \in BOOLEAN : MigrateQuestions(fault)
    \/ \E fault \in BOOLEAN : MigrateScores(fault)
    \/ \E fault \in BOOLEAN : MigrateSettings(fault)
    \/ \E fault \in BOOLEAN : MigrateCommit(fault)
    \/ MigrateExcept
    \/ MigrateFinally
    \/ VerifyCall
    \/ Tick

SpecMig == InitMig /\ [][NextMig]_vars

(***************************************************************************)
(* Module loading: the import system, step by step.                        *)
(***************************************************************************)
Entries == {"data_manager", "auth", "migrate_to_sqlite", "operations", "admin_db"}

Top  == stack[Len(stack)]
Stmt == Body(Top.mod)[Top.pos]
Pop  == SubSeq(stack, 1, Len(stack) - 1)
Goto(pos) == [stack EXCEPT ![Len(stack)].pos = pos]
AtStmt(op) ==
    /\ stack # <<>>
    /\ exc = "none"
    /\ Top.pos <= Len(Body(Top.mod))
    /\ Stmt.op = op

\* the module an import statement has to execute first, "none" if none
ToLoad(m) ==
    IF Parent(m) # "none" /\ sysmods[Parent(m)] = "absent" THEN Parent(m)
    ELSE IF sysmods[m] = "absent" THEN m
    ELSE "none"

\* the interpreter is asked for a module that is not loaded
ImportTop(m) ==
    /\ stack = <<>>
    /\ exc = "none"
    /\ call.pc \in {"idle", "done"}
    /\ sysmods[m] = "absent"
    /\ env' = [env EXCEPT !.entry = m]
    /\ stack' = <<[mod |-> "__main__", pos |-> 1, reload |-> FALSE]>>
    /\ UNCHANGED <<sysmods, ns, exc, flags, call, ncalls, fsVars, dbVars>>

\* importlib.reload(data_manager): the body runs again in the module's namespace
Reload ==
    /\ stack = <<>>
    /\ exc = "none"
    /\ call.pc \in {"idle", "done"}
    /\ sysmods["data_manager"] = "loaded"
    /\ env.reloads < MaxReloads
    /\ env' = [env EXCEPT !.reloads = @ + 1]
    /\ stack' = <<[mod |-> "data_manager", pos |-> 1, reload |-> TRUE]>>
    /\ UNCHANGED <<sysmods, ns, exc, flags, call, ncalls, fsVars, dbVars>>

\* def / assignment statements bind their names to objects of this module
ExecDef ==
    /\ AtStmt("def")
    /\ ns' = [ns EXCEPT ![Top.mod] =
                 [n \in AllNames |-> IF n \in Stmt.names THEN Top.mod ELSE @[n]]]
    /\ stack' = Goto(Top.pos + 1)
    /\ UNCHANGED <<sysmods, exc, flags, env, call, ncalls, fsVars, dbVars>>

\* USE_DATABASE = True / False
ExecFlag ==
    /\ AtStmt("flag")
    /\ flags' = [flags EXCEPT ![Top.mod] = Stmt.val]
    /\ stack' = Goto(Top.pos + 1 + Stmt.skip)
    /\ UNCHANGED <<sysmods, ns, exc, env, call, ncalls, fsVars, dbVars>>

\* import sqlalchemy: ModuleNotFoundError when it is not installed
ExecLib ==
    /\ AtStmt("lib")
    /\ IF env.sqlalchemy
       THEN stack' = Goto(Top.pos + 1) /\ exc' = exc
       ELSE stack' = stack /\ exc' = "ImportError"
    /\ UNCHANGED <<sysmods, ns, flags, env, call, ncalls, fsVars, dbVars>>

\* os.path.join(DATABASE_DIR, "forklift_training.db")
DATABASE_PATH == [File(DATA_DIR, "forklift_training.db") EXCEPT !.kind = "db"]

\* Base.metadata.create_all(engine): SQLite creates the database file when
\* there is none; the tables are the ones of db
create_all(f) == IF Exists(f, DATABASE_PATH) THEN f ELSE Put(f, DATABASE_PATH, <<>>)

\* os.makedirs(DATABASE_DIR, exist_ok=True); engine = sa.create_engine(...);
\* Base.metadata.create_all(engine), in the body of connection.py
ExecCreateAll ==
    /\ AtStmt("create_all")
    /\ fs' = create_all(fs)
    /\ stack' = Goto(Top.pos + 1)
    /\ UNCHANGED <<sysmods, ns, exc, flags, env, call, ncalls, clock, wr, rd, dbVars>>

\* from m import ...: m (or its package) is not in sys.modules; it is put
\* there and its body starts
ImportEnter ==
    /\ AtStmt("from")
    /\ ToLoad(Stmt.mod) # "none"
    /\ sysmods' = [sysmods EXCEPT ![ToLoad(Stmt.mod)] = "partial"]
    /\ ns' = [ns EXCEPT ![ToLoad(Stmt.mod)] = Unbound]
    /\ stack' = Append(stack, [mod |-> ToLoad(Stmt.mod), pos |-> 1, reload |-> FALSE])
    /\ UNCHANGED <<exc, flags, env, call, ncalls, fsVars, dbVars>>

\* from m import names: m is in sys.modules, whole or not, and has every name
ImportBind ==
    /\ AtStmt("from")
    /\ ToLoad(Stmt.mod) = "none"
    /\ \A n \in Stmt.names : ns[Stmt.mod][n] # "unbound"
    /\ IF Top.mod = "__main__" THEN ns' = ns
       ELSE ns' = [ns EXCEPT ![Top.mod] =
                      [n \in AllNames |-> IF n \in Stmt.names THEN ns[Stmt.mod][n] ELSE @[n]]]
    /\ stack' = Goto(Top.pos + 1 + Stmt.skip)
    /\ UNCHANGED <<sysmods, exc, flags, env, call, ncalls, fsVars, dbVars>>

\* from m import names: m is in sys.modules and lacks a name ("cannot import
\* name ... from partially initialized module")
ImportMissing ==
    /\ AtStmt("from")
    /\ ToLoad(Stmt.mod) = "none"
    /\ \E n \in Stmt.names : ns[Stmt.mod][n] = "unbound"
    /\ exc' = "ImportError"
    /\ UNCHANGED <<sysmods, ns, stack, flags, env, call, ncalls, fsVars, dbVars>>

\* the statement that raised is in a try with except ImportError
CatchImportError ==
    /\ stack # <<>>
    /\ exc = "ImportError"
    /\ Stmt.fail # 0
    /\ exc' = "none"
    /\ stack' = Goto(Stmt.fail)
    /\ UNCHANGED <<sysmods, ns, flags, env, call, ncalls, fsVars, dbVars>>

\* no handler: the module's import fails, the module leaves sys.modules and
\* the exception is raised by the import statement that asked for it
FailModule ==
    /\ stack # <<>>
    /\ exc = "ImportError"
    /\ Stmt.fail = 0
    /\ sysmods' = IF Top.mod = "__main__" \/ Top.reload THEN sysmods
                  ELSE [sysmods EXCEPT ![Top.mod] = "absent"]
    /\ stack' = Pop
    /\ UNCHANGED <<ns, exc, flags, env, call, ncalls, fsVars, dbVars>>

\* the end of a module body
FinishModule ==
    /\ stack # <<>>
    /\ exc = "none"
    /\ Top.pos > Len(Body(Top.mod))
    /\ sysmods' = IF Top.mod = "__main__" THEN sysmods
                  ELSE [sysmods EXCEPT ![Top.mod] = "loaded"]
    /\ stack' = Pop
    /\ UNCHANGED <<ns, exc, flags, env, call, ncalls, fsVars, dbVars>>

\* sys.exit(1) of the migration script
ExecExit ==
    /\ AtStmt("exit")
    /\ exc' = "SystemExit"
    /\ stack' = <<>>
    /\ sysmods' = [sysmods EXCEPT ![Top.mod] = "absent"]
    /\ UNCHANGED <<ns, flags, env, call, ncalls, fsVars, dbVars>>

(***************************************************************************)
(* The data-access functions of data_manager that choose the backend.      *)
(***************************************************************************)
\* the functions of data_manager whose name is also imported from operations
Shadowed == OperationsImported \cap DataManagerDefs

Dispatchers ==
    {"save_questions", "save_settings", "save_quiz_score", "get_user_scores",
     "clear_all_scores", "clear_user_scores", "load_users"}

\* the global name the "if USE_DATABASE:" branch of a function calls
Callee(fn) == IF fn = "load_users" THEN "get_all_users" ELSE fn

\* write_json_file as one call that meets no fault: the disk after it
WriteJson(f, p, d, now) ==
    LET f1 == Put(f, TempFile(p), Dumps(d))
        f2 == IF Exists(f, p) THEN WriteBackupCopy(f1, p, now) ELSE f1
    IN  [ret |-> TRUE, fs |-> Replace(f2, TempFile(p), p)]

\* settings.get(key, default)
DictGet(d, key, dflt) ==
    IF \E i \in DOMAIN d.v : d.v[i][1] = PyStr(key)
    THEN d.v[CHOOSE i \in DOMAIN d.v : d.v[i][1] = PyStr(key)][2]
    ELSE dflt

\* (score / max_score) * 100 if max_score > 0 else 0, for arguments that
\* divide evenly
Percentage(score, max_score) ==
    IF max_score > 0 THEN (score * 100) \div max_score ELSE 0

\* the arguments of the calls
ArgUser      == "alice"
ArgScore     == 8
ArgMaxScore  == 10
ArgQuestions == PyList(<<QuestionRec(PyInt(1), PyStr("e"))>>)
ArgSettings  == PyDict(<< <<PyStr("passing_score"), PyInt(80)>> >>)
ArgScores    == PyList(<<ScoreRec(PyStr("s1"), ArgUser, T1)>>)

\* the score_data of save_quiz_score's file branch
NewScore(username, score, max_score, settings, now) ==
    PyObj([id |-> Md5Id(PyStr(username), Now(now)), username |-> PyStr(username),
           score |-> PyInt(score), max_score |-> PyInt(max_score),
           percentage |-> PyInt(Percentage(score, max_score)),
           passed |-> PyBool(Percentage(score, max_score)
                                >= DictGet(settings, "passing_score", PyInt(80)).v),
           timestamp |-> Strftime(now), time_taken |-> PyNone, categories |-> Absent])

(***************************************************************************)
(* The operations of database/operations.py, each as one call: the tables  *)
(* it leaves committed, what it returns, the exception it lets out, and    *)
(* the session after it.                                                   *)
(***************************************************************************)
\* a set as a sequence, in a fixed order
RECURSIVE SeqOf(_)
SeqOf(S) ==
    IF S = {} THEN <<>>
    ELSE LET x == CHOOSE y \in S : TRUE IN <<x>> \o SeqOf(S \ {x})

\* what a call leaves behind
Outcome(t, ret, e, s) == [db |-> t, ret |-> ret, exc |-> e, session |-> s]

\* datetime.datetime.now().isoformat(): microseconds; two calls of one
\* process never read the same value (seq numbers the calls)
Isoformat(now, seq) == [t |-> "iso", v |-> <<now, seq>>]

\* settings_dict[key] = value
DictSet(d, key, value) ==
    IF \E i \in DOMAIN d.v : d.v[i][1] = PyStr(key)
    THEN PyDict([i \in DOMAIN d.v |->
                    IF d.v[i][1] = PyStr(key) THEN <<PyStr(key), value>> ELSE d.v[i]])
    ELSE PyDict(Append(d.v, <<PyStr(key), value>>))

\* the columns of type DateTime: SQLite's DateTime accepts datetime objects
\* (and None), a string makes the flush raise StatementError
DateTimeCols(tbl) ==
    CASE tbl = "users" -> {"created_at", "last_login"}
      [] tbl = "scores" -> {"timestamp"}
      [] OTHER -> {}

\* the constraints an UPDATE of a row checks
UpdateOK(tbl, r) ==
    /\ \A c \in NotNullCols(tbl) : r[c].t # "none"
    /\ \A c \in DateTimeCols(tbl) : r[c].t # "str"

\* session.commit() and what follows it.  work is the outcome of the flush;
\* fault: the database refuses the COMMIT (OperationalError).  With an
\* "except SQLAlchemyError" clause (caught) the error becomes failRet after
\* session.rollback(); without one it leaves the function.  close_db_session()
\* runs in the finally clause on every path.
Finish(t, s, work, fault, okRet, failRet, caught) ==
    IF work.ok /\ ~fault
    THEN Outcome(work.db, okRet, "none", CloseDbSession(EndTxn(BeginTxn(s))))
    ELSE IF caught
    THEN Outcome(Rollback(t, work.db), failRet, "none",
                 CloseDbSession(EndTxn(BeginTxn(s))))
    ELSE Outcome(Rollback(t, work.db), PyNone,
                 IF fault THEN "OperationalError" ELSE "IntegrityError",
                 CloseDbSession(BeginTxn(s)))

\* get_all_settings(): the rows as a dict, the default settings when the
\* table is empty; try / finally, no except clause.  fault: the query fails
\* (OperationalError)
get_all_settings(t, s, now, fault) ==
    LET rows == SeqOf(t.settings)
        settings == [i \in DOMAIN rows |-> <<rows[i].key, rows[i].value>>]
        default_settings ==
            << <<PyStr("company_name"), PyStr("Your Company")>>,
               <<PyStr("passing_score"), PyInt(80)>>,
               <<PyStr("certificate_validity_days"), PyInt(365)>>,
               <<PyStr("enable_self_registration"), PyBool(TRUE)>>,
               <<PyStr("default_quiz_time_limit"), PyInt(0)>>,
               <<PyStr("default_quiz_questions"), PyInt(10)>>,
               <<PyStr("track_categories"), PyBool(TRUE)>>,
               <<PyStr("require_reset_password"), PyBool(TRUE)>>,
               <<PyStr("password_expiry_days"), PyInt(90)>>,
               <<PyStr("last_updated"), Strftime(now)>> >>
    IN  IF fault
        THEN Outcome(t, PyNone, "OperationalError", CloseDbSession(BeginTxn(GetDbSession(s))))
        ELSE Outcome(t, PyDict(IF settings = <<>> THEN default_settings ELSE settings),
                     "none", CloseDbSession(BeginTxn(GetDbSession(s))))

\* save_user(username, user_data): update the row, or insert a new one
save_user(t, s, username, user_data, now, fault) ==
    LET s1 == BeginTxn(GetDbSession(s))
        found == {u \in t.users : u.username = PyStr(username)}
    IN  IF found # {}
        THEN LET user == CHOOSE u \in found : TRUE
                 upd == [c \in DOMAIN user |->
                            IF c \in DOMAIN user_data /\ user_data[c].t # "absent"
                            THEN user_data[c] ELSE user[c]]
                 ok == UpdateOK("users", upd)
             IN  Finish(t, s1,
                        [ok |-> ok,
                         db |-> IF ok THEN [t EXCEPT !.users = (@ \ {user}) \cup {upd}]
                                ELSE t],
                        fault, PyBool(TRUE), PyBool(FALSE), TRUE)
        ELSE LET user == [username   |-> PyStr(username),
                          password   |-> Get(user_data, "password", PyStr("")),
                          name       |-> Get(user_data, "name", PyStr("")),
                          role       |-> Get(user_data, "role", PyStr("operator")),
                          created_at |-> Now(now),
                          last_login |-> PyNone]
             IN  Finish(t, s1, FlushRows(t, "users", <<user>>),
                        fault, PyBool(TRUE), PyBool(FALSE), TRUE)

\* faulty variant: the scores of a deleted user stay
CascadeNothing(scores, username) == scores

\* relationship("Score", cascade="all, delete-orphan"): the scores of the
\* deleted user are deleted with it
CascadeDelete(scores, username) == {x \in scores : x.username # PyStr(username)}

\* delete_user(username)
delete_user(t, s, username, fault) ==
    LET s1 == BeginTxn(GetDbSession(s))
        found == {u \in t.users : u.username = PyStr(username)}
    IN  IF found = {}
        THEN Outcome(t, PyBool(FALSE), "none", CloseDbSession(s1))
        ELSE Finish(t, s1,
                    [ok |-> TRUE,
                     db |-> [t EXCEPT !.users = @ \ found,
                                      !.scores = CascadeDelete(@, username)]],
                    fault, PyBool(TRUE), PyBool(FALSE), TRUE)

\* save_questions(questions_list): delete every question, add the new ones
save_questions(t, s, questions_list, fault) ==
    LET s1 == BeginTxn(GetDbSession(s))
        rows == [i \in DOMAIN questions_list.v |-> QuestionRow(questions_list.v[i].v).row]
    IN  Finish(t, s1, FlushRows([t EXCEPT !.questions = {}], "questions", rows),
               fault, PyBool(TRUE), PyBool(FALSE), TRUE)

\* delete_question(question_id): try / finally, no except clause
delete_question(t, s, question_id, fault) ==
    LET s1 == BeginTxn(GetDbSession(s))
        found == {q \in t.questions : q.id = PyInt(question_id)}
    IN  IF found = {}
        THEN Outcome(t, PyBool(FALSE), "none", CloseDbSession(s1))
        ELSE Finish(t, s1, [ok |-> TRUE, db |-> [t EXCEPT !.questions = @ \ found]],
                    fault, PyBool(TRUE), PyBool(FALSE), FALSE)

\* faulty variant: the new id is the number of questions plus one
NewIdByCount(rows) == Cardinality(rows) + 1

\* max_id = session.query(sa.func.max(Question.id)).scalar() or 0;
\* new_id = max_id + 1.  MAX over no row is NULL
NewId(rows) ==
    LET scalar == IF rows = {} THEN PyNone ELSE PyInt(MaxOf({x.id.v : x \in rows}))
        max_id == IF Truthy(scalar) THEN scalar ELSE PyInt(0)
    IN  max_id.v + 1

\* add_question(question_data): the id of question_data is not read
add_question(t, s, question_data, fault) ==
    LET s1 == BeginTxn(GetDbSession(s))
        new_id == NewId(t.questions)
        question == [QuestionRow(question_data).row EXCEPT !.id = PyInt(new_id)]
    IN  Finish(t, s1, FlushRows(t, "questions", <<question>>),
               fault, PyInt(new_id), PyNone, TRUE)

\* update_question(question_id, question_data): setattr for every key of
\* question_data that is an attribute of the row, id included; the UPDATE
\* of the primary key fails on an id another row holds
update_question(t, s, question_id, question_data, fault) ==
    LET s1 == BeginTxn(GetDbSession(s))
        found == {q \in t.questions : q.id = PyInt(question_id)}
    IN  IF found = {}
        THEN Outcome(t, PyBool(FALSE), "none", CloseDbSession(s1))
        ELSE LET question == CHOOSE q \in found : TRUE
                 upd == [c \in DOMAIN question |->
                            IF c \in DOMAIN question_data /\ question_data[c].t # "absent"
                            THEN question_data[c] ELSE question[c]]
                 ok == /\ UpdateOK("questions", upd)
                       /\ \A x \in t.questions \ {question} : x.id # upd.id
             IN  Finish(t, s1,
                        [ok |-> ok,
                         db |-> IF ok THEN [t EXCEPT !.questions = (@ \ {question}) \cup {upd}]
                                ELSE t],
                        fault, PyBool(TRUE), PyBool(FALSE), TRUE)

\* faulty variant: the threshold is always the default one
PassingScoreDefault(settings) == PyInt(80)

\* settings.get("passing_score", 80)
PassingScore(settings) == DictGet(settings, "passing_score", PyInt(80))

\* save_quiz_score(username, score, max_score): the nested get_all_settings()
\* takes the registered session and removes it; add and commit then use the
\* session object the function still holds
save_quiz_score(t, s, username, score, max_score, now, seq, fault) ==
    LET s1 == GetDbSession(s)
        percentage == Percentage(score, max_score)
        settings == get_all_settings(t, s1, now, FALSE)
        passing_score == PassingScore(settings.ret)
        score_entry ==
            [id         |-> Md5Id(PyStr(username), Isoformat(now, seq)),
             username   |-> PyStr(username),
             score      |-> PyInt(score),
             max_score  |-> PyInt(max_score),
             percentage |-> PyInt(percentage),
             passed     |-> PyBool(percentage >= passing_score.v),
             timestamp  |-> Now(now),
             time_taken |-> PyNone,
             categories |-> PyNone]
    IN  IF passing_score.t # "int"
        THEN Outcome(t, PyNone, "TypeError", CloseDbSession(settings.session))
        ELSE Finish(t, settings.session, FlushRows(t, "scores", <<score_entry>>),
                    fault, PyBool(TRUE), PyBool(FALSE), TRUE)

\* clear_all_scores()
clear_all_scores(t, s, fault) ==
    Finish(t, BeginTxn(GetDbSession(s)), [ok |-> TRUE, db |-> [t EXCEPT !.scores = {}]],
           fault, PyBool(TRUE), PyBool(FALSE), TRUE)

\* clear_user_scores(username)
clear_user_scores(t, s, username, fault) ==
    Finish(t, BeginTxn(GetDbSession(s)),
           [ok |-> TRUE,
            db |-> [t EXCEPT !.scores = {x \in @ : x.username # PyStr(username)}]],
           fault, PyBool(TRUE), PyBool(FALSE), TRUE)

\* save_settings(settings_dict): stamp the dict, delete every setting, add
\* one row per key
save_settings(t, s, settings_dict, now, fault) ==
    LET stamped == DictSet(settings_dict, "last_updated", Strftime(now))
        rows == [i \in DOMAIN stamped.v |->
                    SettingRow(stamped.v[i][1], stamped.v[i][2]).row]
    IN  Finish(t, BeginTxn(GetDbSession(s)),
               FlushRows([t EXCEPT !.settings = {}],
                         "settings", rows),
               fault, PyBool(TRUE), PyBool(FALSE), TRUE)

\* set_setting(key, value): update the row, or insert a new one
set_setting(t, s, key, value, fault) ==
    LET s1 == BeginTxn(GetDbSession(s))
        found == {r \in t.settings : r.key = PyStr(key)}
    IN  IF found # {}
        THEN Finish(t, s1,
                    [ok |-> TRUE,
                     db |-> [t EXCEPT !.settings =
                                (@ \ found) \cup {[r EXCEPT !.value = value] : r \in found}]],
                    fault, PyBool(TRUE), PyBool(FALSE), TRUE)
        ELSE Finish(t, s1, FlushRows(t, "settings", <<SettingRow(PyStr(key), value).row>>),
                    fault, PyBool(TRUE), PyBool(FALSE), TRUE)

(***************************************************************************)
(* The file store's side of the data-access functions of data_manager.     *)
(***************************************************************************)
\* the arguments of a call; a function reads the ones it has
NoArg ==
    [username |-> "none", data |-> PyNone, key |-> "none", id |-> 0,
     score |-> 0, max_score |-> 0]

\* what a call of the file store leaves behind
FileOutcome(f, ret, e) == [fs |-> f, ret |-> ret, exc |-> e]

\* write_json_file as one call; fault: the disk fails, the except clause
\* turns the error into False and the target is as it was
TryWriteJson(f, p, d, now, fault) ==
    IF fault THEN FileOutcome(f, PyBool(FALSE), "none")
    ELSE FileOutcome(WriteJson(f, p, d, now).fs, PyBool(TRUE), "none")

\* the else branch (USE_DATABASE false) of a function of data_manager, as
\* one call.  fault: the disk fails: the open of read_json_file raises
\* OSError, which read_json_file does not catch, and write_json_file
\* returns False
FileOp(fn, a, f, now, fault) ==
    CASE fn = "save_settings" -> TryWriteJson(f, SETTINGS_FILE, a.data, now, fault)
      [] fn = "save_scores" -> TryWriteJson(f, SCORES_FILE, a.data, now, fault)
      [] fn = "clear_all_scores" -> TryWriteJson(f, SCORES_FILE, PyList(<<>>), now, fault)
      [] fn = "clear_user_scores" ->
            IF fault /\ Exists(f, SCORES_FILE) THEN FileOutcome(f, PyNone, "OSError")
            ELSE LET r == ReadJson(f, SCORES_FILE, PyList(<<>>), now)
                     kept == SelectSeq(r.ret.v, LAMBDA x : x.v.username # PyStr(a.username))
                 IN  TryWriteJson(r.fs, SCORES_FILE, PyList(kept), now, fault)
      [] fn = "save_quiz_score" ->
            IF fault /\ (Exists(f, SCORES_FILE) \/ Exists(f, SETTINGS_FILE))
            THEN FileOutcome(f, PyNone, "OSError")
            ELSE LET r1 == ReadJson(f, SCORES_FILE, PyList(<<>>), now)
                     r2 == ReadJson(r1.fs, SETTINGS_FILE, PyDict(<<>>), now)
                     new == NewScore(a.username, a.score, a.max_score, r2.ret, now)
                 IN  TryWriteJson(r2.fs, SCORES_FILE, PyList(Append(r1.ret.v, new)),
                                  now, fault)

\* the else branch of a function: the disk after it
FileBranch(fn, f, now) ==
    CASE fn = "save_questions" -> WriteJson(f, QUESTIONS_FILE, ArgQuestions, now).fs
      [] fn \in {"save_settings", "clear_all_scores", "clear_user_scores", "save_quiz_score"} ->
            FileOp(fn, [NoArg EXCEPT !.username = ArgUser, !.score = ArgScore,
                                     !.max_score = ArgMaxScore, !.data = ArgSettings],
                   f, now, FALSE).fs
      [] fn = "get_user_scores" -> ReadJson(f, SCORES_FILE, PyList(<<>>), now).fs
      [] fn = "load_users" -> ReadJson(f, USER_DB_FILE, PyDict(<<>>), now).fs

(***************************************************************************)
(* initialize_data_files of data_manager.                                  *)
(***************************************************************************)
\* the default documents of initialize_data_files and initialize_json_files
DefaultUsers(now) ==
    PyDict(<< <<PyStr("admin"),
                PyObj([password |-> PyStr("sha256(admin123)"), name |-> PyStr("Admin User"),
                       role |-> PyStr("admin"), created_at |-> Strftime(now),
                       last_login |-> PyNone])>> >>)

DefaultQuestion(id, answer, category, difficulty) ==
    PyObj([id |-> PyInt(id), question |-> PyStr("q"),
           options |-> PyList(<<PyStr("a"), PyStr("b"), PyStr("c"), PyStr("d")>>),
           answer |-> PyInt(answer), explanation |-> PyStr("e"),
           category |-> PyStr(category), difficulty |-> PyStr(difficulty)])

DefaultQuestions ==
    PyList(<<DefaultQuestion(1, 1, "Safety", "Basic"),
             DefaultQuestion(2, 2, "Operation", "Intermediate"),
             DefaultQuestion(3, 2, "Safety", "Basic")>>)

DefaultSettings(now) ==
    PyDict(<< <<PyStr("company_name"), PyStr("Your Company")>>,
              <<PyStr("passing_score"), PyInt(80)>>,
              <<PyStr("certificate_validity_days"), PyInt(365)>>,
              <<PyStr("enable_self_registration"), PyBool(TRUE)>>,
              <<PyStr("default_quiz_time_limit"), PyInt(0)>>,
              <<PyStr("default_quiz_questions"), PyInt(10)>>,
              <<PyStr("track_categories"), PyBool(TRUE)>>,
              <<PyStr("require_reset_password"), PyBool(TRUE)>>,
              <<PyStr("password_expiry_days"), PyInt(90)>>,
              <<PyStr("last_updated"), Strftime(now)>> >>)

\* initialize_json_files(): each of the four files that does not exist is
\* written with its default document
initialize_json_files(f, now) ==
    LET f1 == IF Exists(f, USER_DB_FILE) THEN f
              ELSE WriteJson(f, USER_DB_FILE, DefaultUsers(now), now).fs
        f2 == IF Exists(f1, QUESTIONS_FILE) THEN f1
              ELSE WriteJson(f1, QUESTIONS_FILE, DefaultQuestions, now).fs
        f3 == IF Exists(f2, SCORES_FILE) THEN f2
              ELSE WriteJson(f2, SCORES_FILE, PyList(<<>>), now).fs
    IN  IF Exists(f3, SETTINGS_FILE) THEN f3
        ELSE WriteJson(f3, SETTINGS_FILE, DefaultSettings(now), now).fs

\* the branch of initialize_data_files that creates the default admin
\* (no admin row, none of the four files)
CreatesDefaults(t, f) ==
    /\ ~\E u \in t.users : u.username = PyStr("admin")
    /\ ~\E p \in SourcePaths : Exists(f, p)

\* the branch of initialize_data_files that calls migrate_data() (no admin
\* row, one of the four files at least)
MigratesData(useDb, t, f) ==
    /\ useDb
    /\ ~\E u \in t.users : u.username = PyStr("admin")
    /\ \E p \in SourcePaths : Exists(f, p)

\* the modules the import statements inside the function name, in order:
\* database.connection, database.migrate, database.models and, where the
\* default admin is created, auth; auth alone in initialize_json_files
LazyImports(useDb, t, f) ==
    IF useDb
    THEN <<"connection", "migrate", "models">>
             \o (IF CreatesDefaults(t, f) THEN <<"auth">> ELSE <<>>)
    ELSE <<"auth">>

\* what follows the imports in the branches that do not migrate.  names:
\* the globals of data_manager; a global bound to data_manager's own
\* function calls the function that tests USE_DATABASE again and so recurses
\* until RecursionError
initialize_data_files(useDb, names, t, f, now) ==
    IF ~useDb THEN [db |-> t, fs |-> initialize_json_files(f, now), exc |-> "none"]
    ELSE IF ~CreatesDefaults(t, f) THEN [db |-> t, fs |-> f, exc |-> "none"]
    ELSE LET u == save_user(t, NoSession, "admin", DefaultUsers(now).v[1][2].v, now, FALSE)
             s == save_settings(u.db, NoSession, DefaultSettings(now), now, FALSE)
             q == save_questions(s.db, NoSession, DefaultQuestions, FALSE)
         IN  IF names["save_settings"] = "data_manager"
             THEN [db |-> u.db, fs |-> f, exc |-> "RecursionError"]
             ELSE IF names["save_questions"] = "data_manager"
             THEN [db |-> s.db, fs |-> f, exc |-> "RecursionError"]
             ELSE [db |-> q.db, fs |-> f, exc |-> "none"]

\* initialize_data_files() is called
InitializeCall ==
    /\ stack = <<>>
    /\ exc = "none"
    /\ sysmods["data_manager"] = "loaded"
    /\ call.pc \in {"idle", "done"}
    /\ Quiet
    /\ ncalls < MaxCalls
    /\ ncalls' = ncalls + 1
    /\ call' = [pc |-> "import", fn |-> "initialize_data_files", depth |-> 1, ops |-> 0,
                ret |-> "none", useDb |-> flags.data_manager = "True"]
    /\ UNCHANGED <<sysmods, ns, stack, exc, flags, env, fsVars, dbVars>>

\* the next import statement whose module is not in sys.modules: the import
\* system loads the module.  When that raised ImportError: in the try block
\* it is caught, USE_DATABASE = False and initialize_json_files() follow;
\* outside the try block it leaves the function
InitializeImport ==
    /\ call.pc = "import"
    /\ stack = <<>>
    /\ IF exc = "ImportError"
       THEN /\ exc' = "none"
            /\ IF call.useDb
               THEN /\ flags' = [flags EXCEPT !.data_manager = "False"]
                    /\ call' = [call EXCEPT !.useDb = FALSE]
               ELSE /\ flags' = flags
                    /\ call' = [call EXCEPT !.pc = "done", !.ret = "ImportError"]
            /\ UNCHANGED <<stack, env>>
       ELSE /\ exc = "none"
            /\ LET mods == LazyImports(call.useDb, db, fs)
                   todo == {i \in DOMAIN mods : sysmods[mods[i]] # "loaded"}
               IN  /\ todo # {}
                   /\ env' = [env EXCEPT
                                 !.entry = mods[CHOOSE i \in todo : \A j \in todo : i <= j]]
            /\ stack' = <<[mod |-> "__main__", pos |-> 1, reload |-> FALSE]>>
            /\ UNCHANGED <<exc, flags, call>>
    /\ UNCHANGED <<sysmods, ns, ncalls, fsVars, dbVars>>

\* the import statements have all run
ImportsDone ==
    /\ call.pc = "import"
    /\ stack = <<>>
    /\ exc = "none"
    /\ \A i \in DOMAIN LazyImports(call.useDb, db, fs) :
           sysmods[LazyImports(call.useDb, db, fs)[i]] = "loaded"

\* the imports are done and there is nothing to migrate: the rest of the
\* function
InitializeRun ==
    /\ ImportsDone
    /\ ~MigratesData(call.useDb, db, fs)
    /\ LET r == initialize_data_files(call.useDb, ns["data_manager"], db, fs, clock)
       IN  /\ fs' = r.fs
           /\ db' = r.db
           /\ txn' = r.db
           /\ call' = [call EXCEPT !.pc = "done",
                                   !.ret = IF r.exc = "none" THEN "returned" ELSE r.exc]
    /\ UNCHANGED <<sysmods, ns, stack, exc, flags, env, ncalls, clock, wr, rd,
                   pending, mg, vres, session, oper>>

\* the imports are done, no admin row and a source file: migrate_data() is
\* called (init_db(), stats, get_db_session(), as MigrateCall)
InitializeMigrate ==
    /\ ImportsDone
    /\ MigratesData(call.useDb, db, fs)
    /\ mg.pc \in {"idle", "done"}
    /\ mg' = [pc |-> "users", stats |-> NoStats, ret |-> "none", err |-> "none",
              injected |-> FALSE, rolled |-> 0, n |-> mg.n + 1,
              db0 |-> db, fs0 |-> fs]
    /\ txn' = db
    /\ pending' = NoPending
    /\ session' = GetDbSession(session)
    /\ call' = [call EXCEPT !.pc = "migrate"]
    /\ UNCHANGED <<sysmods, ns, stack, exc, flags, env, ncalls, fsVars, db, vres, oper>>

\* migrate_data() has returned, or raised again what it caught; nothing
\* follows it in the function, and its exception leaves the function
\* unless it is an ImportError
InitializeReturn ==
    /\ call.pc = "migrate"
    /\ mg.pc = "done"
    /\ call' = [call EXCEPT !.pc = "done",
                            !.ret = IF mg.ret = "raised" THEN mg.err ELSE "returned"]
    /\ UNCHANGED <<sysmods, ns, stack, exc, flags, env, ncalls, fsVars, dbVars>>

\* a function of data_manager is called
DispatchCall(fn) ==
    /\ stack = <<>>
    /\ exc = "none"
    /\ sysmods["data_manager"] = "loaded"
    /\ call.pc \in {"idle", "done"}
    /\ Quiet
    /\ ncalls < MaxCalls
    /\ ncalls' = ncalls + 1
    /\ call' = [pc |-> "test", fn |-> fn, depth |-> 1, ops |-> 0, ret |-> "none",
                useDb |-> flags.data_manager = "True"]
    /\ UNCHANGED <<sysmods, ns, stack, exc, flags, env, fsVars, dbVars>>

\* if USE_DATABASE: return name(...), and the global name is bound to the
\* function of data_manager itself: one more frame of the same function
DispatchRecurse ==
    /\ call.pc = "test"
    /\ flags.data_manager = "True"
    /\ ns["data_manager"][Callee(call.fn)] = "data_manager"
    /\ call.depth < RecursionLimit
    /\ call' = [call EXCEPT !.depth = @ + 1]
    /\ UNCHANGED <<sysmods, ns, stack, exc, flags, env, ncalls, fsVars, dbVars>>

\* the same at the recursion limit: RecursionError leaves every frame
DispatchOverflow ==
    /\ call.pc = "test"
    /\ flags.data_manager = "True"
    /\ ns["data_manager"][Callee(call.fn)] = "data_manager"
    /\ call.depth = RecursionLimit
    /\ call' = [call EXCEPT !.pc = "done", !.ret = "RecursionError"]
    /\ UNCHANGED <<sysmods, ns, stack, exc, flags, env, ncalls, fsVars, dbVars>>

\* if USE_DATABASE: return name(...), and the global name is bound to the
\* function of database.operations.  Of the names the model calls only
\* get_all_users is bound so; it reads the users table and changes nothing.
DispatchRelational ==
    /\ call.pc = "test"
    /\ flags.data_manager = "True"
    /\ ns["data_manager"][Callee(call.fn)] = "operations"
    /\ Callee(call.fn) = "get_all_users"
    /\ call' = [call EXCEPT !.pc = "done", !.ops = @ + 1, !.ret = "relational"]
    /\ UNCHANGED <<sysmods, ns, stack, exc, flags, env, ncalls, fsVars, dbVars>>

\* else: the file store
DispatchFile ==
    /\ call.pc = "test"
    /\ flags.data_manager # "True"
    /\ fs' = FileBranch(call.fn, fs, clock)
    /\ call' = [call EXCEPT !.pc = "done", !.ret = "file"]
    /\ UNCHANGED <<sysmods, ns, stack, exc, flags, env, ncalls, clock, wr, rd, dbVars>>

\* save_scores(scores): both branches of its "if USE_DATABASE:" are
\* write_json_file(SCORES_FILE, scores)
SaveScoresCall ==
    /\ stack = <<>>
    /\ exc = "none"
    /\ sysmods["data_manager"] = "loaded"
    /\ call.pc \in {"idle", "done"}
    /\ Quiet
    /\ ncalls < MaxCalls
    /\ ncalls' = ncalls + 1
    /\ fs' = WriteJson(fs, SCORES_FILE, ArgScores, clock).fs
    /\ call' = [pc |-> "done", fn |-> "save_scores", depth |-> 1, ops |-> 0,
                ret |-> "file", useDb |-> flags.data_manager = "True"]
    /\ UNCHANGED <<sysmods, ns, stack, exc, flags, env, clock, wr, rd, dbVars>>

InitLoad ==
    /\ fs = NoFiles
    /\ clock = 0
    /\ wr = [w \in Writers |-> IdleWriter]
    /\ rd = IdleReader
    /\ ncalls = 0
    /\ DBIdle
    /\ sysmods = [m \in Modules |-> "absent"]
    /\ ns = [m \in Modules |-> Unbound]
    /\ stack = <<>>
    /\ exc = "none"
    /\ flags = [data_manager |-> "unset", auth |-> "unset", admin_db |-> "unset"]
    /\ env \in {[sqlalchemy |-> b, entry |-> "none", reloads |-> 0] : b \in BOOLEAN}
    /\ call = IdleCall

NextLoad ==
    \/ \E m \in Entries : ImportTop(m)
    \/ Reload
    \/ ExecDef
    \/ ExecFlag
    \/ ExecLib
    \/ ExecCreateAll
    \/ ImportEnter
    \/ ImportBind
    \/ ImportMissing
    \/ CatchImportError
    \/ FailModule
    \/ FinishModule
    \/ ExecExit
    \/ \E fn \in Dispatchers : DispatchCall(fn)
    \/ DispatchRecurse
    \/ DispatchOverflow
    \/ DispatchRelational
    \/ DispatchFile
    \/ SaveScoresCall
    \/ InitializeCall
    \/ InitializeImport
    \/ InitializeRun
    \/ InitializeMigrate
    \/ \E fault \in BOOLEAN : MigrateUsers(fault)
    \/ \E fault \in BOOLEAN : MigrateQuestions(fault)
    \/ \E fault \in BOOLEAN : MigrateScores(fault)
    \/ \E fault \in BOOLEAN : MigrateSettings(fault)
    \/ \E fault \in BOOLEAN : MigrateCommit(fault)
    \/ MigrateExcept
    \/ MigrateFinally
    \/ InitializeReturn

SpecLoad == InitLoad /\ [][NextLoad]_vars

(***************************************************************************)
(* The data-access operations called one after another: the functions of   *)
(* database.operations on the tables, the functions of data_manager (with  *)
(* USE_DATABASE false) on the files.                                       *)
(***************************************************************************)
RelationalOps ==
    {"get_all_settings", "save_user", "delete_user", "save_questions", "delete_question",
     "save_quiz_score", "clear_all_scores", "clear_user_scores", "save_settings",
     "set_setting"}

FileOps ==
    {"save_settings", "save_scores", "clear_all_scores", "clear_user_scores",
     "save_quiz_score"}

\* the call fn(a) of database.operations
RelOp(fn, a, t, s, now, seq, fault) ==
    CASE fn = "get_all_settings" -> get_all_settings(t, s, now, fault)
      [] fn = "save_user" -> save_user(t, s, a.username, a.data.v, now, fault)
      [] fn = "delete_user" -> delete_user(t, s, a.username, fault)
      [] fn = "save_questions" -> save_questions(t, s, a.data, fault)
      [] fn = "delete_question" -> delete_question(t, s, a.id, fault)
      [] fn = "add_question" -> add_question(t, s, a.data.v, fault)
      [] fn = "update_question" -> update_question(t, s, a.id, a.data.v, fault)
      [] fn = "save_quiz_score" ->
            save_quiz_score(t, s, a.username, a.score, a.max_score, now, seq, fault)
      [] fn = "clear_all_scores" -> clear_all_scores(t, s, fault)
      [] fn = "clear_user_scores" -> clear_user_scores(t, s, a.username, fault)
      [] fn = "save_settings" -> save_settings(t, s, a.data, now, fault)
      [] fn = "set_setting" -> set_setting(t, s, a.key, a.data, fault)

\* the users, user records, quiz results and settings the calls are made with
UserArgs ==
    { <<"alice", UserRec(PyStr("h"), Absent, Absent)>>,
      <<"alice", UserRec(PyNone, Absent, Absent)>> }
QuizResults == { <<"alice", 8, 10>>, <<"alice", 0, 0>> }
SettingsArgs ==
    { ArgSettings,
      PyDict(<< <<PyStr("company_name"), PyStr("c")>>, <<PyStr("passing_score"), PyInt(90)>>,
                <<PyStr("last_updated"), T2>> >>) }
ScoresArgs == { PyList(<<>>), PyList(<<ScoreRec(PyStr("s1"), "alice", T1)>>) }

ArgsOf(backend, fn) ==
    CASE fn = "save_user" ->
            {[NoArg EXCEPT !.username = u[1], !.data = u[2]] : u \in UserArgs}
      [] fn \in {"delete_user", "clear_user_scores"} -> {[NoArg EXCEPT !.username = "alice"]}
      [] fn = "save_quiz_score" ->
            {[NoArg EXCEPT !.username = r[1], !.score = r[2], !.max_score = r[3]] :
                r \in QuizResults}
      [] fn = "save_questions" -> {[NoArg EXCEPT !.data = ArgQuestions]}
      [] fn = "delete_question" -> {[NoArg EXCEPT !.id = 1]}
      [] fn = "save_settings" -> {[NoArg EXCEPT !.data = d] : d \in SettingsArgs}
      [] fn = "save_scores" -> {[NoArg EXCEPT !.data = d] : d \in ScoresArgs}
      [] fn = "set_setting" ->
            {[NoArg EXCEPT !.key = "passing_score", !.data = PyInt(90)]}
      [] OTHER -> {NoArg}

\* one call of a function of database.operations
RelationalCall(fn, a, fault) ==
    /\ Quiet
    /\ mg.pc \in {"idle", "done"}
    /\ ncalls < MaxCalls
    /\ LET r == RelOp(fn, a, db, session, clock, ncalls, fault) IN
        /\ db' = r.db
        /\ txn' = r.db
        /\ session' = r.session
        /\ oper' = [fn |-> fn, backend |-> "relational", arg |-> a, ret |-> r.ret,
                    exc |-> r.exc, fault |-> fault, db0 |-> db, fs0 |-> fs, now |-> clock]
    /\ ncalls' = ncalls + 1
    /\ UNCHANGED <<pending, mg, vres, fs, clock, wr, rd, loadVars>>

\* one call of a function of data_manager, USE_DATABASE false
FileCall(fn, a, fault) ==
    /\ Quiet
    /\ mg.pc = "idle"
    /\ ncalls < MaxCalls
    /\ LET r == FileOp(fn, a, fs, clock, fault) IN
        /\ fs' = r.fs
        /\ oper' = [fn |-> fn, backend |-> "file", arg |-> a, ret |-> r.ret,
                    exc |-> r.exc, fault |-> fault, db0 |-> db, fs0 |-> fs, now |-> clock]
    /\ ncalls' = ncalls + 1
    /\ UNCHANGED <<db, txn, pending, mg, vres, session, clock, wr, rd, loadVars>>

\* tables a running application has: two users who each took a quiz
SeededDB ==
    LET t1 == save_user(EmptyDB, NoSession, "alice", UserRec(PyStr("h"), Absent, Absent).v,
                        0, FALSE).db
        t2 == save_user(t1, NoSession, "bob", UserRec(PyStr("h"), Absent, Absent).v,
                        0, FALSE).db
        t3 == save_quiz_score(t2, NoSession, "alice", 8, 10, 0, -2, FALSE).db
    IN  save_quiz_score(t3, NoSession, "bob", 8, 10, 0, -1, FALSE).db

InitOps ==
    /\ fs = NoFiles
    /\ clock = 0
    /\ wr = [w \in Writers |-> IdleWriter]
    /\ rd = IdleReader
    /\ ncalls = 0
    /\ db \in {EmptyDB, SeededDB}
    /\ txn = db
    /\ pending = NoPending
    /\ mg = IdleMigration
    /\ vres = NoVerification
    /\ session = NoSession
    /\ oper = NoOp
    /\ LoadIdle

NextOps ==
    \/ \E fn \in RelationalOps : \E a \in ArgsOf("relational", fn), fault \in BOOLEAN :
            RelationalCall(fn, a, fault)
    \/ \E fn \in FileOps : \E a \in ArgsOf("file", fn), fault \in BOOLEAN :
            FileCall(fn, a, fault)
    \/ Tick

SpecOps == InitOps /\ [][NextOps]_vars

(***************************************************************************)
(* Everything that takes a session: the functions of database.operations,  *)
(* migrate_data and verify_migration, called one after another.            *)
(***************************************************************************)
\* the source files a migration finds: the four of them; scores that make
\* the commit fail
SessionDisks ==
    LET no == [present |-> FALSE, text |-> <<>>]
        doc(d) == [present |-> TRUE, text |-> Dumps(d)]
        users == doc(PyDict(<< <<PyStr("carol"), UserRec(PyStr("h"), T1, PyNone)>> >>))
        questions == doc(ArgQuestions)
        settings == doc(ArgSettings)
    IN  { DiskOf([users |-> users, questions |-> questions,
                  scores |-> doc(PyList(<<ScoreRec(PyStr("s1"), "carol", T1)>>)),
                  settings |-> settings]),
          DiskOf([users |-> no, questions |-> no,
                  scores |-> doc(PyList(<<ScoreRec(PyStr("s1"), "carol", T1),
                                          ScoreRec(PyStr("s1"), "carol", T2)>>)),
                  settings |-> no]) }

InitSessions ==
    /\ fs \in SessionDisks
    /\ clock = 0
    /\ wr = [w \in Writers |-> IdleWriter]
    /\ rd = IdleReader
    /\ ncalls = 0
    /\ db = SeededDB
    /\ txn = db
    /\ pending = NoPending
    /\ mg = IdleMigration
    /\ vres = NoVerification
    /\ session = NoSession
    /\ oper = NoOp
    /\ LoadIdle

\* the calls of a behaviour, migrations included, are at most MaxCalls
SessionOperation(fn, a, fault) == ncalls + mg.n < MaxCalls /\ RelationalCall(fn, a, fault)
SessionMigrate == ncalls + mg.n < MaxCalls /\ MigrateCall

NextSessions ==
    \/ \E fn \in RelationalOps : \E a \in ArgsOf("relational", fn), fault \in BOOLEAN :
            SessionOperation(fn, a, fault)
    \/ SessionMigrate
    \/ \E fault \in BOOLEAN : MigrateUsers(fault)
    \/ \E fault \in BOOLEAN : MigrateQuestions(fault)
    \/ \E fault \in BOOLEAN : MigrateScores(fault)
    \/ \E fault \in BOOLEAN : MigrateSettings(fault)
    \/ \E fault \in BOOLEAN : MigrateCommit(fault)
    \/ MigrateExcept
    \/ MigrateFinally
    \/ VerifyCall

SpecSessions == InitSessions /\ [][NextSessions]_vars

(***************************************************************************)
(* Properties of the file store.                                           *)
(***************************************************************************)
\* a value of the JSON data model: no tuple, and only strings as object keys
JSONRepresentable(x) ==
    /\ x.t # "tuple"
    /\ x.t = "dict" => \A i \in DOMAIN x.v : x.v[i][1].t = "str"

\* C4: while write_json_file runs, beside a reader in another process, the
\* target path holds the complete prior content or the complete new document
\* at every step: it is never missing if it existed, never empty or cut short.
C4_TargetWholeDuringWrite ==
    \A w \in Writers : wr[w].pc # "idle" =>
        LET p == wr[w].path IN
        /\ wr[w].preExists =>
              Exists(fs, p) /\ fs[p] \in {wr[w].preText, Dumps(wr[w].data)}
        /\ (~wr[w].preExists /\ Exists(fs, p)) => fs[p] = Dumps(wr[w].data)

\* C4's case: the reader is about to open the target while the temporary file
\* holds a part of the new document and the target its prior, valid one
C4_Witness ==
    /\ wr[1].pc = "dump"
    /\ wr[1].preExists
    /\ Loads(wr[1].preText).t # "error"
    /\ Exists(fs, TempFile(wr[1].path))
    /\ Len(fs[TempFile(wr[1].path)]) = 1
    /\ rd.pc = "load"
    /\ rd.path = wr[1].path

\* C5: an I/O failure at any step of write_json_file makes the call return
\* False and leaves the target path as it was before the call.
C5_FailedWriteLeavesTarget ==
    \A w \in Writers : (wr[w].pc = "done" /\ wr[w].fault # "none") =>
        LET p == wr[w].path IN
        /\ wr[w].ret = FALSE
        /\ Exists(fs, p) = wr[w].preExists
        /\ wr[w].preExists => fs[p] = wr[w].preText

\* C5's case: the rename failed after the prior version had been backed up
C5_Witness ==
    /\ wr[1].pc = "done"
    /\ wr[1].fault = "replace"
    /\ wr[1].preExists
    /\ \E b \in Backups(fs) : fs[b] = wr[1].preText

\* C6: a JSON-representable document D written by write_json_file (which
\* returned True) is what read_json_file returns, whatever the default: the
\* write leaves D's serialisation at the path, and a read of that text gives D.
C6_RoundTrip ==
    \A d \in FSDocs : JSONRepresentable(d) =>
        /\ (wr[1].pc = "done" /\ wr[1].ret /\ wr[1].data = d) =>
              Exists(fs, wr[1].path) /\ Loads(fs[wr[1].path]) = d
        /\ (rd.pc = "done" /\ rd.preExists /\ rd.preText = Dumps(d)) => rd.ret = d

\* C6's case: a read has returned from a path that a write of this behaviour
\* filled with a dict (no behaviour starts with that text on the disk)
C6_Witness ==
    /\ rd.pc = "done"
    /\ rd.preExists
    /\ rd.preText = Dumps(DictDoc)
    /\ rd.ret = DictDoc
    /\ rd.default # DictDoc

\* C7: every successful write over an existing document, consecutive writes
\* within one clock second included, adds
\* exactly one file to the backup directory, holding the prior version; a
\* write to a new path adds none.
C7_OneNewBackupPerWrite ==
    (wr[1].pc = "done" /\ wr[1].ret) =>
        IF wr[1].preExists
        THEN /\ BackupCount(fs) = wr[1].nbak0 + 1
             /\ \E b \in Backups(fs) : fs[b] = wr[1].preText
        ELSE BackupCount(fs) = wr[1].nbak0

SameSources(f, g) ==
    \A p \in SourcePaths :
        /\ Exists(f, p) <=> Exists(g, p)
        /\ Exists(f, p) => f[p] = g[p]

\* C1: migrate_data is all-or-nothing.  Whenever a call has met an exception
\* (in any of the four passes or in the commit) and has left its except
\* clause, neither the committed tables nor the session's transaction hold a
\* row the call added, the exception goes to the caller, and the source
\* documents are the ones the call found.
C1_MigrateAllOrNothing ==
    (mg.pc \in {"finally", "done"} /\ mg.err # "none") =>
        /\ mg.ret = "raised"
        /\ db = mg.db0
        /\ txn = mg.db0
        /\ pending = NoPending
        /\ SameSources(fs, mg.fs0)

\* a call that had added objects of several entities failed in the commit
\* after part of them had been inserted, and the inserted rows were undone
C1_Witness ==
    /\ mg.pc = "done"
    /\ mg.ret = "raised"
    /\ mg.err = "IntegrityError"
    /\ mg.rolled > 0
    /\ mg.stats.users > 0
    /\ mg.stats.scores > 0
    /\ db = mg.db0

\* a timestamp a record may carry: none, or a string of the fixed format
StampOK(x) == x.t \in {"absent", "none"} \/ (x.t = "str" /\ x.v \in ValidTimestamps)
StrOrAbsent(x) == x.t \in {"absent", "str"}
Distinct(seq) == \A i, j \in DOMAIN seq : i # j => seq[i] # seq[j]

WellFormedUser(u) ==
    /\ u.t = "obj"
    /\ StrOrAbsent(u.v.password) /\ StrOrAbsent(u.v.name) /\ StrOrAbsent(u.v.role)
    /\ StampOK(u.v.created_at) /\ StampOK(u.v.last_login)

WellFormedQuestion(q) ==
    /\ q.t = "obj"
    /\ q.v.id.t \in {"absent", "int"}
    /\ q.v.question.t = "str" /\ q.v.options.t = "list"
    /\ q.v.answer.t = "int" /\ q.v.explanation.t = "str"
    /\ StrOrAbsent(q.v.category) /\ StrOrAbsent(q.v.difficulty)

WellFormedScore(sc) ==
    /\ sc.t = "obj"
    /\ sc.v.id.t \in {"absent", "str"}
    /\ sc.v.username.t = "str"
    /\ sc.v.score.t = "int" /\ sc.v.max_score.t = "int" /\ sc.v.percentage.t = "int"
    /\ sc.v.passed.t \in {"absent", "bool"}
    /\ StampOK(sc.v.timestamp)

\* the ids the records of a list carry, in order
GivenIds(recs) ==
    LET idx == {i \in DOMAIN recs : recs[i].v.id.t # "absent"}
    IN  [i \in idx |-> recs[i].v.id]

\* a well-formed set of sources: every file that exists parses to a document
\* of its entity's shape, every record has the fields of its entity with
\* values of their types, and the ids that are given are given once
WellFormedSources(f) ==
    \A p \in SourcePaths : Exists(f, p) =>
        LET d == Loads(f[p])
            tbl == TableOf(p)
        IN  CASE tbl = "users" ->
                    d.t = "dict" /\ \A i \in DOMAIN d.v : WellFormedUser(d.v[i][2])
              [] tbl = "questions" ->
                    /\ d.t = "list"
                    /\ \A i \in DOMAIN d.v : WellFormedQuestion(d.v[i])
                    /\ Distinct(GivenIds(d.v))
              [] tbl = "scores" ->
                    /\ d.t = "list"
                    /\ \A i \in DOMAIN d.v : WellFormedScore(d.v[i])
                    /\ Distinct(GivenIds(d.v))
              [] tbl = "settings" -> d.t = "dict"

\* C2: for every well-formed set of source documents, migrate_data on an
\* empty destination returns, and verify_migration after it reports success.
\* (No failure of the disk or of the database is assumed.)
C2_MigrateThenVerifySucceeds ==
    (/\ mg.pc = "done"
     /\ mg.n = 1
     /\ mg.db0 = EmptyDB
     /\ ~mg.injected
     /\ WellFormedSources(mg.fs0)) =>
        /\ mg.ret = "returned"
        /\ (vres.done /\ vres.n = mg.n) => vres.success

\* the records of the source document of an entity; 0 when there is no file
\* or no document in it
SourceCount(f, tbl) ==
    IF ~Exists(f, SourceFile(tbl)) THEN 0
    ELSE LET d == Loads(f[SourceFile(tbl)]) IN
         IF d.t \in {"list", "dict"} THEN Len(d.v) ELSE 0

\* C3: when migrate_data returns, each count it returns is the number of
\* records of the entity's source document (0 when the file is absent) and
\* the number of rows the call added to the entity's table.
C3_CountsAreRecordsAndRows ==
    (mg.pc = "done" /\ mg.ret = "returned") =>
        \A e \in DOMAIN mg.stats :
            /\ mg.stats[e] = SourceCount(mg.fs0, e)
            /\ mg.stats[e] = Cardinality(db[e]) - Cardinality(mg.db0[e])

\* the scenario of 1 user, 3 questions, 0 scores and 4 settings, verified
C3_Witness ==
    /\ mg.pc = "done"
    /\ mg.ret = "returned"
    /\ mg.stats = [users |-> 1, questions |-> 3, scores |-> 0, settings |-> 4]
    /\ Cardinality(db.questions) = 3
    /\ vres.done /\ vres.n = mg.n /\ vres.success

\* C16: verify_migration returns success = true exactly when, for each of
\* users, questions, scores and settings, the number of records of the source
\* document (0 when the file is absent or holds no document) is the number
\* of rows of the table; and a step of verify_migration changes neither the
\* rows of the destination nor the source documents.
C16_VerifySuccessIffCountsMatch ==
    /\ []((vres.done /\ ~vres.raised /\ vres.n = mg.n /\ mg.pc = "done") =>
            (vres.success <=>
                \A e \in DOMAIN vres.json : SourceCount(fs, e) = Cardinality(db[e])))
    /\ [][vres' # vres => (db' = db /\ txn' = txn /\ SameSources(fs', fs))]_vars

\* a verification after a migration that was rolled back: two users in the
\* source, none in the table, success = false
C16_Witness ==
    /\ vres.done /\ ~vres.raised /\ vres.n = mg.n /\ mg.pc = "done"
    /\ ~vres.success
    /\ vres.json.users = 2
    /\ vres.db.users = 0

\* the destination holds what one successful migration of the sources f puts
\* into a fresh destination: per entity, as many rows as the source has records
MigratedOnce(t, f) ==
    \A i \in DOMAIN Tables : Cardinality(t[Tables[i]]) = SourceCount(f, Tables[i])

\* C17: after a successful migrate_data on a fresh destination, a second
\* migrate_data on the same well-formed sources, the destination not cleared,
\* leaves the destination such that verify_migration reports success, whether
\* the second call returned or raised.
C17_SecondMigrateKeepsVerifiable ==
    (/\ mg.pc = "done"
     /\ mg.n = 2
     /\ WellFormedSources(mg.fs0)
     /\ MigratedOnce(mg.db0, mg.fs0)
     /\ vres.done /\ vres.n = mg.n) =>
        vres.success

(***************************************************************************)
(* Properties of the data-access operations.                               *)
(***************************************************************************)
\* the score records a store holds: the rows of the table, the records of
\* scores.json
FileScores(f) ==
    IF ~Exists(f, SCORES_FILE) THEN <<>>
    ELSE LET d == Loads(f[SCORES_FILE]) IN
         IF d.t = "list" THEN [i \in DOMAIN d.v |-> d.v[i].v] ELSE <<>>

\* the settings a store holds, as a set of <<key, value>>
StoredSettings(backend, t, f) ==
    IF backend = "relational" THEN {<<r.key, r.value>> : r \in t.settings}
    ELSE IF ~Exists(f, SETTINGS_FILE) THEN {}
    ELSE LET d == Loads(f[SETTINGS_FILE]) IN
         IF d.t = "dict" THEN {d.v[i] : i \in DOMAIN d.v} ELSE {}

\* the passing_score setting a store holds, 80 when it holds none
ThresholdAt(backend, t, f) ==
    LET set == {p \in StoredSettings(backend, t, f) : p[1] = PyStr("passing_score")}
    IN  IF set = {} THEN 80 ELSE (CHOOSE p \in set : TRUE)[2].v

\* the score record the last call created
CreatedScores ==
    IF oper.backend = "relational" THEN db.scores \ oper.db0.scores
    ELSE LET after == FileScores(fs) IN
         IF Len(after) = Len(FileScores(oper.fs0)) + 1 THEN {after[Len(after)]} ELSE {}

\* C12: a call save_quiz_score(username, score, max_score) that succeeds, on
\* the tables or on the files, creates one record whose percentage is
\* score / max_score * 100 when max_score > 0 and 0 otherwise, and whose
\* passed flag tells whether that percentage reaches the passing_score the
\* store held when the call was made; hence the two backends store the same
\* two values for the same arguments and settings.
C12_ScoreRecordComputed ==
    (oper.fn = "save_quiz_score" /\ oper.ret = PyBool(TRUE)) =>
        /\ Cardinality(CreatedScores) = 1
        /\ \A r \in CreatedScores :
              /\ IF oper.arg.max_score > 0
                 THEN r.percentage.v * oper.arg.max_score = oper.arg.score * 100
                 ELSE r.percentage.v = 0
              /\ r.passed.v <=>
                    (r.percentage.v >= ThresholdAt(oper.backend, oper.db0, oper.fs0))

\* a score of 80 percent recorded in the tables while the passing score was
\* 90: not passed
C12_Witness ==
    /\ oper.fn = "save_quiz_score"
    /\ oper.backend = "relational"
    /\ oper.ret = PyBool(TRUE)
    /\ ThresholdAt("relational", oper.db0, oper.fs0) = 90
    /\ \E r \in CreatedScores : r.percentage.v = 80 /\ ~r.passed.v

\* what must stay of a score: its identity, percentage, passed flag, timestamp
Frozen(sc) ==
    [id |-> sc.id, percentage |-> sc.percentage, passed |-> sc.passed,
     timestamp |-> sc.timestamp]

AllScores(t, f) ==
    {Frozen(r) : r \in t.scores} \cup {Frozen(FileScores(f)[i]) : i \in DOMAIN FileScores(f)}

\* C13: a recorded score keeps its percentage, passed flag and timestamp
\* through every later data-access call, and is still in its store after the
\* call unless the call was clear_all_scores, clear_user_scores or delete_user.
C13_ScoresNeverUpdated ==
    oper.fn \notin {"clear_all_scores", "clear_user_scores", "delete_user"} =>
        AllScores(oper.db0, oper.fs0) \subseteq AllScores(db, fs)

\* the scores of the tables whose user is not username
ScoresOfOthers(t, username) == {x \in t.scores : x.username # PyStr(username)}

\* C14: after delete_user(u) returned True the scores table holds no score
\* of u and the scores of every other user are the ones it held before;
\* when there is no user u the call returns False and the tables are as
\* they were.
C14_DeleteUserCascades ==
    (oper.fn = "delete_user" /\ oper.backend = "relational") =>
        /\ oper.ret = PyBool(TRUE) =>
              /\ \A x \in db.scores : x.username # PyStr(oper.arg.username)
              /\ ScoresOfOthers(db, oper.arg.username)
                    = ScoresOfOthers(oper.db0, oper.arg.username)
        /\ (\A u \in oper.db0.users : u.username # PyStr(oper.arg.username)) =>
              /\ oper.ret = PyBool(FALSE)
              /\ db = oper.db0

\* a user with a score was deleted while another user had a score too
C14_Witness ==
    /\ oper.fn = "delete_user"
    /\ oper.backend = "relational"
    /\ oper.ret = PyBool(TRUE)
    /\ \E x \in oper.db0.scores : x.username = PyStr(oper.arg.username)
    /\ ScoresOfOthers(db, oper.arg.username) # {}

\* C19: every function of database.operations, migrate_data and
\* verify_migration releases its session on every way out (return, not
\* found, SQLAlchemy error, any other exception): whenever no call is
\* running, the registry holds no session and no session holds a transaction.
C19_NoSessionLeft ==
    mg.pc \in {"idle", "done"} => (~session.registered /\ ~session.intxn)

\* a migration has committed and delete_question, having found its
\* question, has let the error of its commit out; both released the session
C19_Witness ==
    /\ mg.pc = "done"
    /\ mg.ret = "returned"
    /\ oper.fn = "delete_question"
    /\ oper.exc = "OperationalError"
    /\ session = NoSession

\* the four documents of f are those of g
SameDocuments(f, g) ==
    \A p \in {USER_DB_FILE, QUESTIONS_FILE, SCORES_FILE, SETTINGS_FILE} :
        /\ Exists(f, p) <=> Exists(g, p)
        /\ Exists(f, p) => f[p] = g[p]

\* C18: a call that meets a storage fault lets no exception out: it returns
\* False or None and leaves the tables and the documents as they were.
C18_NoFaultEscapes ==
    oper.fault =>
        /\ oper.exc = "none"
        /\ oper.ret \in {PyBool(FALSE), PyNone}
        /\ db = oper.db0
        /\ SameDocuments(fs, oper.fs0)

\* the pairs save_settings(S) at time now must leave: those of S, with
\* last_updated set to now
StampedSettings(S, now) ==
    {S.v[i] : i \in {j \in DOMAIN S.v : S.v[j][1] # PyStr("last_updated")}}
        \cup {<<PyStr("last_updated"), Strftime(now)>>}

\* C20: after save_settings(S) succeeded, on the tables or on the files, the
\* stored settings are the keys and values of S and a last_updated key
\* holding the time of the call; no other key that was stored before remains.
C20_SaveSettingsReplacesAndStamps ==
    (oper.fn = "save_settings" /\ oper.ret = PyBool(TRUE)) =>
        StoredSettings(oper.backend, db, fs) = StampedSettings(oper.arg.data, oper.now)

(***************************************************************************)
(* Properties of the backend selection.                                    *)
(***************************************************************************)
\* C9: with USE_DATABASE true, a call of save_questions, save_settings,
\* save_quiz_score, get_user_scores, clear_all_scores or clear_user_scores
\* of data_manager ends having invoked the operation of database.operations
\* exactly once, and returns its result.
C9_DispatchInvokesRelationalOnce ==
    (call.pc = "done" /\ call.useDb /\ call.fn \in Shadowed) =>
        /\ call.ops = 1
        /\ call.ret = "relational"

\* the modules that keep a USE_DATABASE of their own
FlagModules == {"data_manager", "auth", "admin_db"}

\* the flag of m has been set by the loading of m
Resolved(m) == flags[m] # "unset"

\* C11: once a module's loading has resolved its USE_DATABASE, no step of the
\* process changes it, initialize_data_files included, and the modules that
\* keep a flag of their own hold the same value.
C11_SelectionResolvedOnce ==
    /\ [](\A m, n \in FlagModules :
             (Resolved(m) /\ Resolved(n)) => flags[m] = flags[n])
    /\ [][\A m \in FlagModules : Resolved(m) => flags'[m] = flags[m]]_vars

\* a step of a data-access call of data_manager
CallStep == call.pc \notin {"idle", "done"} \/ call' # call

\* C15: a data-access call made while USE_DATABASE is true writes none of
\* users.json, questions.json, scores.json and settings.json, and one made
\* while it is false writes no table; the migration that
\* initialize_data_files starts reads the files and writes the tables.
C15_SideEffectsOnActiveBackend ==
    [][CallStep =>
          IF flags.data_manager = "True" THEN SameDocuments(fs, fs') ELSE db' = db]_vars

\* C10: when the relational modules are importable, data_manager ends its
\* loading with USE_DATABASE true, whichever module was asked for first; the
\* file store is selected only when they are not importable.
C10_FlagFollowsImportability ==
    (stack = <<>> /\ sysmods["data_manager"] = "loaded") =>
        (flags.data_manager = "True" <=> env.sqlalchemy)

(***************************************************************************)
(* Properties of the timestamps of migrated records.                       *)
(***************************************************************************)
\* strptime accepts the value
Parses(x) == x.t = "str" /\ x.v \in ValidTimestamps

\* a record with its timestamps taken out
NoStamps(rec) ==
    IF rec.t # "obj" THEN rec
    ELSE PyObj([k \in DOMAIN rec.v |->
                   IF k \in {"created_at", "last_login", "timestamp"} THEN PyNone
                   ELSE rec.v[k]])

\* sources that are well formed but for the values of created_at, last_login
\* and timestamp, which may be anything; every score carries its id
SoundButStamps(f) ==
    /\ \A p \in SourcePaths : Exists(f, p) => Loads(f[p]).t \in {"list", "dict"}
    /\ Exists(f, USER_DB_FILE) =>
           LET d == Loads(f[USER_DB_FILE])
           IN  d.t = "dict" /\ \A i \in DOMAIN d.v : WellFormedUser(NoStamps(d.v[i][2]))
    /\ Exists(f, QUESTIONS_FILE) =>
           LET d == Loads(f[QUESTIONS_FILE])
           IN  /\ d.t = "list"
               /\ \A i \in DOMAIN d.v : WellFormedQuestion(d.v[i]) /\ d.v[i].v.id.t = "int"
               /\ Distinct(GivenIds(d.v))
    /\ Exists(f, SCORES_FILE) =>
           LET d == Loads(f[SCORES_FILE])
           IN  /\ d.t = "list"
               /\ \A i \in DOMAIN d.v :
                      WellFormedScore(NoStamps(d.v[i])) /\ d.v[i].v.id.t = "str"
               /\ Distinct(GivenIds(d.v))
    /\ Exists(f, SETTINGS_FILE) => Loads(f[SETTINGS_FILE]).t = "dict"

\* the users and the scores of f whose timestamps do not parse are in t with
\* the current time for created_at and timestamp and null for last_login
StampsSubstituted(t, f) ==
    /\ Exists(f, USER_DB_FILE) =>
           LET d == Loads(f[USER_DB_FILE])
           IN  \A i \in DOMAIN d.v :
                   \E row \in t.users :
                       /\ row.username = d.v[i][1]
                       /\ ~Parses(d.v[i][2].v.created_at) => row.created_at.t = "now"
                       /\ ~Parses(d.v[i][2].v.last_login) => row.last_login = PyNone
    /\ Exists(f, SCORES_FILE) =>
           LET d == Loads(f[SCORES_FILE])
           IN  \A i \in DOMAIN d.v :
                   \E row \in t.scores :
                       /\ row.id = d.v[i].v.id
                       /\ ~Parses(d.v[i].v.timestamp) => row.timestamp.t = "now"

\* C26: a created_at, last_login or timestamp value that does not parse, a
\* string of another format or no string at all, never makes migrate_data
\* fail: on sources sound but for such values the call returns, and the
\* record is migrated with the current time for created_at / timestamp and
\* null for last_login.
C26_BadTimestampNeverFails ==
    (/\ mg.pc = "done"
     /\ mg.n = 1
     /\ mg.db0 = EmptyDB
     /\ ~mg.injected
     /\ SoundButStamps(mg.fs0)) =>
        /\ mg.ret = "returned"
        /\ StampsSubstituted(db, mg.fs0)

(***************************************************************************)
(* Properties of the rows of the relational store.                         *)
(***************************************************************************)
\* C27: in the relational store every Score row's username is the username
\* of a User row, after any sequence of save_user, delete_user,
\* save_quiz_score, clear_user_scores, clear_all_scores and migrate_data.
C27_ScoreUserExists ==
    \A sc \in db.scores : \E u \in db.users : u.username = sc.username


(***************************************************************************)
(* The question bank of the relational store: save_questions,              *)
(* add_question, update_question and delete_question, called one after     *)
(* another.                                                                *)
(***************************************************************************)
\* a question as a caller passes it
QuestionArg(id, answer, explanation) ==
    PyObj([id |-> id, question |-> PyStr("q"),
           options |-> PyList(<<PyStr("a"), PyStr("b")>>), answer |-> answer,
           explanation |-> explanation, category |-> Absent, difficulty |-> Absent])

\* the fields an update changes
QuestionChange(id, answer) ==
    PyObj([id |-> id, question |-> Absent, options |-> Absent, answer |-> answer,
           explanation |-> Absent, category |-> Absent, difficulty |-> Absent])

QuestionOps == {"save_questions", "add_question", "update_question", "delete_question"}

\* the calls of the question bank: lists with given, missing, repeated and
\* non-positive ids; answers inside and outside the options; a question
\* without explanation; updates of the id and of the answer
QuestionArgs(fn) ==
    CASE fn = "save_questions" ->
            {[NoArg EXCEPT !.data = d] :
                d \in { ArgQuestions,
                        PyList(<<QuestionArg(PyInt(5), PyInt(1), PyStr("e")),
                                 QuestionArg(Absent, PyInt(0), PyStr("e"))>>),
                        PyList(<<QuestionArg(PyInt(2), PyInt(0), PyStr("e")),
                                 QuestionArg(PyInt(2), PyInt(1), PyStr("e"))>>),
                        PyList(<<QuestionArg(PyInt(-1), PyInt(0), PyStr("e"))>>),
                        PyList(<<QuestionArg(PyInt(0), PyInt(2), PyStr("e"))>>) }}
      [] fn = "add_question" ->
            {[NoArg EXCEPT !.data = d] :
                d \in { QuestionArg(Absent, PyInt(0), PyStr("e")),
                        QuestionArg(PyInt(1), PyInt(-1), PyStr("e")),
                        QuestionArg(Absent, PyInt(1), PyNone) }}
      [] fn = "update_question" ->
            {[NoArg EXCEPT !.id = c[1], !.data = c[2]] :
                c \in { <<1, QuestionChange(PyInt(2), Absent)>>,
                        <<1, QuestionChange(Absent, PyInt(2))>>,
                        <<2, QuestionChange(PyInt(1), PyInt(1))>> }}
      [] OTHER -> {[NoArg EXCEPT !.id = i] : i \in {1, 2}}

InitQuestions ==
    /\ fs = NoFiles
    /\ clock = 0
    /\ wr = [w \in Writers |-> IdleWriter]
    /\ rd = IdleReader
    /\ ncalls = 0
    /\ db = SeededDB
    /\ txn = db
    /\ pending = NoPending
    /\ mg = IdleMigration
    /\ vres = NoVerification
    /\ session = NoSession
    /\ oper = NoOp
    /\ LoadIdle

NextQuestions ==
    \E fn \in QuestionOps : \E a \in QuestionArgs(fn), fault \in BOOLEAN :
        RelationalCall(fn, a, fault)

SpecQuestions == InitQuestions /\ [][NextQuestions]_vars

\* C28: after any sequence of add_question, save_questions, update_question
\* and delete_question no two stored questions share an id, and an
\* add_question that stored its question returns max(existing ids) + 1
\* (1 when there was no question), an id no question held before the call
\* and the id of the question it stored
C28_QuestionIdsUnique ==
    /\ \A q1 \in db.questions : \A q2 \in db.questions : q1.id = q2.id => q1 = q2
    /\ \A q \in db.questions : q.id.t = "int"
    /\ (oper.fn = "add_question" /\ oper.ret # PyNone) =>
        /\ oper.ret = PyInt(IF oper.db0.questions = {} THEN 1
                            ELSE MaxOf({x.id.v : x \in oper.db0.questions}) + 1)
        /\ \A x \in oper.db0.questions : x.id # oper.ret
        /\ \E x \in db.questions : x.id = oper.ret
        /\ Cardinality(db.questions) = Cardinality(oper.db0.questions) + 1

\* add_question has stored a question next to others, one with an id below 1
\* among them
C28_Witness ==
    /\ oper.fn = "add_question"
    /\ oper.ret \in {PyInt(0), PyInt(6)}
    /\ Cardinality(db.questions) >= 2

\* C29: every stored question's answer is an index into its options,
\* 0 <= answer < len(options), after any sequence of add_question,
\* save_questions and update_question
C29_AnswerIndexesOptions ==
    \A q \in db.questions : q.answer.t = "int" /\ q.answer.v >= 0 /\ q.answer.v < Len(q.options.v)


(***************************************************************************)
(* The statistics of data_manager: get_score_statistics and                *)
(* get_category_statistics over the scores load_scores() returns.          *)
(***************************************************************************)
MaxAttempts == 6       \* quiz attempts in scores.json

\* timestamps of quiz attempts, day by day
AttemptStamps ==
    <<"2024-01-02 10:00:00", "2024-01-03 10:00:00", "2024-01-04 10:00:00",
      "2024-01-05 10:00:00", "2024-01-06 10:00:00", "2024-01-07 10:00:00",
      "2024-01-08 10:00:00", "2024-01-09 10:00:00">>

\* the order of str on the timestamps: "" comes before each of them; what is
\* no string (None, NULL) is given the place before ""
StampOrder == <<"">> \o ClockStamps \o AttemptStamps
StrRank(x) ==
    IF x.t # "str" THEN 0 ELSE CHOOSE i \in DOMAIN StampOrder : StampOrder[i] = x.v

\* x.get("timestamp", "")
StampKey(x) == Get(x.v, "timestamp", PyStr(""))

RECURSIVE InsertDesc(_, _)
InsertDesc(sorted, x) ==
    IF sorted = <<>> THEN <<x>>
    ELSE IF StrRank(StampKey(Head(sorted))) >= StrRank(StampKey(x))
         THEN <<Head(sorted)>> \o InsertDesc(Tail(sorted), x)
         ELSE <<x>> \o sorted

\* sorted(seq, key=lambda x: x.get("timestamp", ""), reverse=True):
\* descending and stable
RECURSIVE SortedDesc(_)
SortedDesc(seq) ==
    IF seq = <<>> THEN <<>>
    ELSE InsertDesc(SortedDesc(SubSeq(seq, 1, Len(seq) - 1)), seq[Len(seq)])

\* Score.to_dict(): the timestamp formatted, None for a null one
ScoreToDict(row) ==
    PyObj([row EXCEPT !.timestamp =
              CASE row.timestamp.t = "now" -> Strftime(row.timestamp.v)
                [] row.timestamp.t = "datetime" -> PyStr(row.timestamp.v)
                [] OTHER -> PyNone])

\* get_all_scores(): the rows as dicts, ORDER BY timestamp DESC
get_all_scores(t) ==
    SortedDesc([i \in 1..Cardinality(t.scores) |-> ScoreToDict(SeqOf(t.scores)[i])])

\* load_scores(): the list and the disk after the read
load_scores(backend, t, f, now) ==
    IF backend = "relational" THEN [ret |-> PyList(get_all_scores(t)), fs |-> f]
    ELSE ReadJson(f, SCORES_FILE, PyList(<<>>), now)

\* load_settings()
load_settings(backend, t, f, now) ==
    IF backend = "relational"
    THEN [ret |-> get_all_settings(t, NoSession, now, FALSE).ret, fs |-> f]
    ELSE ReadJson(f, SETTINGS_FILE, PyDict(<<>>), now)

\* s.get("percentage", 0)
PercentageOf(s) == Get(s.v, "percentage", PyInt(0)).v

\* faulty variant: the trend is taken over every attempt
RecentAll(sorted) == sorted

\* [:5]
Recent(sorted) == SubSeq(sorted, 1, IF Len(sorted) < 5 THEN Len(sorted) ELSE 5)

\* sum(...) of a sequence of numbers
RECURSIVE SumOf(_)
SumOf(seq) == IF seq = <<>> THEN 0 ELSE Head(seq) + SumOf(Tail(seq))

\* a quotient a / b, kept as the two numbers
Ratio(a, b) == [num |-> a, den |-> b]

\* get_score_statistics(username): the dict it returns; sorted() raises
\* TypeError where a timestamp is None beside one that is a string
get_score_statistics(all, username, settings) ==
    LET scores == IF username # "none"
                  THEN SelectSeq(all, LAMBDA s : s.v.username = PyStr(username))
                  ELSE all
        total_attempts == Len(scores)
        pcts == {PercentageOf(scores[i]) : i \in DOMAIN scores}
        passing_score == DictGet(settings, "passing_score", PyInt(80)).v
        passed_count == SumOf([i \in DOMAIN scores |->
                                  IF PercentageOf(scores[i]) >= passing_score THEN 1 ELSE 0])
        recent_scores == Recent(SortedDesc(scores))
        oldest_recent == PercentageOf(recent_scores[Len(recent_scores)])
        newest_recent == PercentageOf(recent_scores[1])
        recent_trend ==
            IF Len(recent_scores) >= 2
            THEN IF newest_recent > oldest_recent THEN "Improving"
                 ELSE IF newest_recent < oldest_recent THEN "Declining"
                 ELSE "Stable"
            ELSE "Not enough data"
    IN  IF scores = <<>>
        THEN [exc |-> "none",
              ret |-> [total_attempts |-> 0, avg_score |-> Ratio(0, 1),
                       pass_rate |-> Ratio(0, 1), highest_score |-> 0,
                       lowest_score |-> 0, recent_trend |-> "No data"]]
        ELSE IF Len(scores) >= 2 /\ \E i \in DOMAIN scores : StampKey(scores[i]).t # "str"
        THEN [exc |-> "TypeError", ret |-> PyNone]
        ELSE [exc |-> "none",
              ret |-> [total_attempts |-> total_attempts,
                       avg_score |-> Ratio(SumOf([i \in DOMAIN scores |-> PercentageOf(scores[i])]), total_attempts),
                       pass_rate |-> Ratio(passed_count * 100, total_attempts),
                       highest_score |-> CHOOSE m \in pcts : \A x \in pcts : x <= m,
                       lowest_score |-> CHOOSE m \in pcts : \A x \in pcts : m <= x,
                       recent_trend |-> recent_trend]]
\* data["total"], data["correct"] of one score for one category; 0 where the
\* score does not carry the category
CategoryCount(s, category, field) ==
    IF s.v.categories.t = "dict"
          /\ \E i \in DOMAIN s.v.categories.v : s.v.categories.v[i][1] = PyStr(category)
    THEN DictGet(s.v.categories, category, PyNone).v[field].v
    ELSE 0

\* get_category_statistics(): a score that has the key "categories" is read
\* with score["categories"].items(), which raises AttributeError on None
get_category_statistics(all) ==
    LET with == SelectSeq(all, LAMBDA s : s.v.categories.t # "absent")
        names == UNION {{s.categories.v[i][1].v : i \in DOMAIN s.categories.v} :
                           s \in {with[k].v : k \in DOMAIN with}}
        total(c) == SumOf([k \in DOMAIN with |-> CategoryCount(with[k], c, "total")])
        correct(c) == SumOf([k \in DOMAIN with |-> CategoryCount(with[k], c, "correct")])
    IN  IF \E k \in DOMAIN with : with[k].v.categories.t # "dict"
        THEN [exc |-> "AttributeError", ret |-> PyNone]
        ELSE [exc |-> "none",
              ret |-> [c \in names |->
                          [total_questions |-> total(c), correct_answers |-> correct(c),
                           percentage |-> Percentage(correct(c), total(c))]]]

StatisticsOps == {"get_score_statistics", "get_category_statistics"}

\* one call of a statistics function of data_manager; backend: the branch
\* load_scores() and load_settings() take
StatisticsCall(fn, backend, username) ==
    /\ Quiet
    /\ mg.pc = "idle"
    /\ LET sc == load_scores(backend, db, fs, clock)
           scores == sc.ret.v
           mine == IF username # "none"
                   THEN SelectSeq(scores, LAMBDA s : s.v.username = PyStr(username))
                   ELSE scores
           st == IF fn = "get_score_statistics" /\ mine # <<>>
                 THEN load_settings(backend, db, sc.fs, clock)
                 ELSE [ret |-> PyDict(<<>>), fs |-> sc.fs]
           r == IF fn = "get_score_statistics"
                THEN get_score_statistics(scores, username, st.ret)
                ELSE get_category_statistics(scores)
       IN  /\ fs' = st.fs
           /\ oper' = [fn |-> fn, backend |-> backend,
                       arg |-> [NoArg EXCEPT !.username = username], ret |-> r.ret,
                       exc |-> r.exc, fault |-> FALSE, db0 |-> db, fs0 |-> fs,
                       now |-> clock]
    /\ UNCHANGED <<db, txn, pending, mg, vres, session, clock, wr, rd, ncalls, loadVars>>

\* one quiz attempt as save_quiz_score records it
Attempt(username, timestamp, percentage, categories) ==
    PyObj([id |-> Md5Id(PyStr(username), timestamp), username |-> PyStr(username),
           score |-> PyInt(percentage \div 10), max_score |-> PyInt(10),
           percentage |-> PyInt(percentage), passed |-> PyBool(percentage >= 80),
           timestamp |-> timestamp, time_taken |-> PyNone, categories |-> categories])

\* the place in time of the i-th of n attempts of scores.json: the file in
\* the order of the attempts, in the opposite order, or in neither
FileOrders == {"oldest first", "newest first", "mixed"}
StampOf(order, i, n) ==
    CASE order = "oldest first" -> i
      [] order = "newest first" -> n + 1 - i
      [] OTHER -> IF i % 2 = 1 THEN (i + 1) \div 2 ELSE n + 1 - (i \div 2)

\* scores.json with up to MaxAttempts attempts of differing timestamps: each
\* attempt below or above the passing score, the last one bob's, the others
\* alice's
AttemptLists ==
    UNION {{PyList([i \in 1..n |->
                       Attempt(IF i = n THEN "bob" ELSE "alice",
                               PyStr(AttemptStamps[StampOf(o, i, n)]), pct[i], Absent)]) :
               o \in FileOrders, pct \in [1..n -> {50, 80}]} :
           n \in 0..MaxAttempts}

\* the category breakdown of a quiz
Breakdown(safetyTotal, safetyCorrect, operationTotal) ==
    PyDict(<< <<PyStr("Safety"), PyObj([total |-> PyInt(safetyTotal),
                                       correct |-> PyInt(safetyCorrect)])>> >>
           \o IF operationTotal < 0 THEN <<>>
              ELSE << <<PyStr("Operation"), PyObj([total |-> PyInt(operationTotal),
                                                  correct |-> PyInt(0)])>> >>)

\* scores.json with attempts that carry a breakdown and attempts that do not
CategoryLists ==
    {PyList(<<Attempt("alice", PyStr(AttemptStamps[1]), 50, c1),
              Attempt("bob", PyStr(AttemptStamps[2]), 80, c2)>>) :
        c1 \in {Absent, Breakdown(2, 1, -1), Breakdown(4, 4, 0)},
        c2 \in {Absent, Breakdown(2, 2, 2)}}

\* the tables after quizzes taken without breakdown (categories NULL), and
\* after one taken with a breakdown
StatisticsDBs ==
    { SeededDB,
      [SeededDB EXCEPT !.scores = {[x EXCEPT !.categories = Breakdown(2, 1, -1)] : x \in @}] }

InitStatistics ==
    /\ \/ /\ fs \in {Put(NoFiles, SCORES_FILE, Dumps(d)) :
                            d \in AttemptLists \cup CategoryLists}
          /\ db = SeededDB
       \/ /\ fs = NoFiles
          /\ db \in StatisticsDBs
    /\ clock = 0
    /\ wr = [w \in Writers |-> IdleWriter]
    /\ rd = IdleReader
    /\ ncalls = 0
    /\ txn = db
    /\ pending = NoPending
    /\ mg = IdleMigration
    /\ vres = NoVerification
    /\ session = NoSession
    /\ oper = NoOp
    /\ LoadIdle

NextStatistics ==
    \E fn \in StatisticsOps, backend \in {"file", "relational"},
       username \in {"none", "alice", "bob"} :
        StatisticsCall(fn, backend, username)

SpecStatistics == InitStatistics /\ [][NextStatistics]_vars

\* the attempts a call of get_score_statistics is about
AttemptsOf(o) ==
    LET all == load_scores(o.backend, o.db0, o.fs0, o.now).ret.v
    IN  IF o.arg.username = "none" THEN {all[i] : i \in DOMAIN all}
        ELSE {all[i] : i \in {j \in DOMAIN all : all[j].v.username = PyStr(o.arg.username)}}

\* the attempts of S that are newer than x
Newer(S, x) == {y \in S : StrRank(y.v.timestamp) > StrRank(x.v.timestamp)}

\* C21: recent_trend of get_score_statistics is "No data" without attempts,
\* "Not enough data" with one attempt, and with more attempts (of differing
\* timestamps) "Improving", "Declining" or "Stable" as the percentage of the
\* newest attempt is greater than, less than or equal to that of the oldest
\* of the five newest attempts; no older attempt has a say
C21_RecentTrend ==
    (oper.fn = "get_score_statistics" /\ oper.exc = "none") =>
        LET S == AttemptsOf(oper)
            n == Cardinality(S)
            newest == CHOOSE x \in S : Newer(S, x) = {}
            oldest == CHOOSE x \in S :
                        Cardinality(Newer(S, x)) = (IF n < 5 THEN n ELSE 5) - 1
        IN  (\A x \in S : \A y \in S : x # y => x.v.timestamp # y.v.timestamp) =>
            oper.ret.recent_trend =
                CASE n = 0 -> "No data"
                  [] n = 1 -> "Not enough data"
                  [] n > 1 /\ newest.v.percentage.v > oldest.v.percentage.v -> "Improving"
                  [] n > 1 /\ newest.v.percentage.v < oldest.v.percentage.v -> "Declining"
                  [] OTHER -> "Stable"

\* six attempts whose oldest lies below the other five: the trend of the
\* five newest is "Stable", that of all six would be "Improving"
C21_Witness ==
    /\ oper.fn = "get_score_statistics"
    /\ oper.exc = "none"
    /\ oper.ret.total_attempts = 6
    /\ oper.ret.recent_trend = "Stable"
    /\ oper.ret.lowest_score < oper.ret.highest_score
    /\ \E x \in AttemptsOf(oper) :
          /\ Cardinality(Newer(AttemptsOf(oper), x)) = 5
          /\ x.v.percentage.v = oper.ret.lowest_score
          /\ \A y \in AttemptsOf(oper) \ {x} : y.v.percentage.v = oper.ret.highest_score

\* C22: get_category_statistics returns, for every category of a stored
\* score's breakdown, the sums of total and correct over the scores that
\* carry the category and percentage = correct / total * 100 (0 when total is
\* 0); a score without breakdown is skipped and makes no call fail, on the
\* file store and on the relational store (categories NULL)
C22_CategoryStatistics ==
    oper.fn = "get_category_statistics" =>
        LET all == load_scores(oper.backend, oper.db0, oper.fs0, oper.now).ret.v
            with == {all[i].v.categories : i \in {j \in DOMAIN all : all[j].v.categories.t = "dict"}}
            names == UNION {{c.v[i][1].v : i \in DOMAIN c.v} : c \in with}
        IN  /\ oper.exc = "none"
            /\ DOMAIN oper.ret = names
            /\ \A c \in names :
                  /\ oper.ret[c].total_questions =
                        SumOf([k \in DOMAIN all |-> CategoryCount(all[k], c, "total")])
                  /\ oper.ret[c].percentage =
                        Percentage(oper.ret[c].correct_answers, oper.ret[c].total_questions)


(***************************************************************************)
(* Two processes call write_json_file for one path at the same time, on a  *)
(* disk that does not fail.                                                *)
(***************************************************************************)
NextTwoWriters ==
    \/ \E w \in Writers, p \in FSPaths, d \in ConcDocs : WriteCall(w, p, d)
    \/ \E w \in Writers : WriteMakedirs(w, FALSE)
    \/ \E w \in Writers : WriteOpenTemp(w, FALSE)
    \/ \E w \in Writers : WriteDump(w, FALSE)
    \/ \E w \in Writers : WriteExists(w)
    \/ \E w \in Writers : WriteBackup(w, "none")
    \/ \E w \in Writers : WriteReplace(w, FALSE)
    \/ \E w \in Writers : WriteReturn(w)

SpecTwoWriters == InitFS /\ [][NextTwoWriters]_vars

\* C30: while two write_json_file calls for one path run at the same time
\* the target never holds a partial document or a mixture of the two: it
\* holds what it held before the calls or the complete document of one of
\* them, and a call that has finished has replaced the target (it returned
\* True)
C30_ConcurrentWritesComplete ==
    /\ Exists(fs, SCORES_FILE) =>
          fs[SCORES_FILE] \in InitialTexts \cup {Dumps(d) : d \in ConcDocs}
    /\ \A w \in Writers : wr[w].pc = "done" => wr[w].ret


(***************************************************************************)
(* migrate_to_sqlite.py run as a script: the imports at its top, main(),   *)
(* migrate() with create_backup(), init_db(), migrate_data() and           *)
(* verify_migration(), and the exit of the process.                        *)
(***************************************************************************)
\* os.path.join(BACKUP_DIR, f"migration_backup_{timestamp}", file_name)
MigrationBackup(p, now) ==
    [dir |-> BACKUP_DIR, base |-> p.base, kind |-> "migration_backup", ts |-> now]

MigrationBackups(f) == {q \in DOMAIN f : q.kind = "migration_backup"}

\* create_backup(files): each file is copied into the backup directory of
\* this second
create_backup(f, files, now) ==
    [q \in (DOMAIN f) \cup {MigrationBackup(p, now) : p \in files} |->
        IF \E p \in files : q = MigrationBackup(p, now)
        THEN f[CHOOSE p \in files : q = MigrationBackup(p, now)]
        ELSE f[q]]

\* the command lines: --no-backup and --force, each given or not
CommandLines == SUBSET {"no_backup", "force"}

\* python migrate_to_sqlite.py argv: a new process, whose sys.modules is
\* empty, runs the script.  oper keeps the command line and the disk and
\* the tables the run started with, and in the end the exit status
CliRun(argv) ==
    /\ stack = <<>>
    /\ call.pc \in {"idle", "exited"}
    /\ mg.pc \in {"idle", "done"}
    /\ Quiet
    /\ ncalls < MaxCalls
    /\ ncalls' = ncalls + 1
    /\ sysmods' = [m \in Modules |-> "absent"]
    /\ ns' = [m \in Modules |-> Unbound]
    /\ flags' = [data_manager |-> "unset", auth |-> "unset", admin_db |-> "unset"]
    /\ exc' = "none"
    /\ env' = [env EXCEPT !.entry = "migrate_to_sqlite"]
    /\ stack' = <<[mod |-> "__main__", pos |-> 1, reload |-> FALSE]>>
    /\ call' = [IdleCall EXCEPT !.pc = "load", !.fn = "main"]
    /\ oper' = [NoOp EXCEPT !.fn = "main", !.arg = argv, !.db0 = db, !.fs0 = fs,
                            !.now = clock]
    /\ session' = NoSession
    /\ UNCHANGED <<fsVars, db, txn, pending, mg, vres>>

\* main(): the arguments are parsed; the run is refused when the database
\* file exists and --force is not given
CliMain ==
    /\ call.pc = "load"
    /\ stack = <<>>
    /\ exc = "none"
    /\ sysmods["migrate_to_sqlite"] = "loaded"
    /\ call' = IF Exists(fs, DATABASE_PATH) /\ "force" \notin oper.arg
               THEN [call EXCEPT !.pc = "done", !.ret = "refused"]
               ELSE [call EXCEPT !.pc = "migrate"]
    /\ UNCHANGED <<sysmods, ns, stack, exc, flags, env, ncalls, fsVars, dbVars>>

\* migrate() up to migrate_data(): without source file it returns False;
\* else create_backup(existing_files) and init_db().  args.no_backup is not
\* read
CliBackup ==
    /\ call.pc = "migrate"
    /\ LET existing_files == {p \in SourcePaths : Exists(fs, p)} IN
       IF existing_files = {}
       THEN /\ call' = [call EXCEPT !.pc = "done", !.ret = "nothing to migrate"]
            /\ fs' = fs
       ELSE /\ call' = [call EXCEPT !.pc = "migrate_data"]
            /\ fs' = create_all(create_backup(fs, existing_files, clock))
    /\ UNCHANGED <<sysmods, ns, stack, exc, flags, env, ncalls, clock, wr, rd, dbVars>>

\* stats = migrate_data(), as MigrateCall
CliMigrateData ==
    /\ call.pc = "migrate_data"
    /\ mg.pc \in {"idle", "done"}
    /\ mg' = [pc |-> "users", stats |-> NoStats, ret |-> "none", err |-> "none",
              injected |-> FALSE, rolled |-> 0, n |-> mg.n + 1,
              db0 |-> db, fs0 |-> fs]
    /\ txn' = db
    /\ pending' = NoPending
    /\ session' = GetDbSession(session)
    /\ call' = [call EXCEPT !.pc = "migrating"]
    /\ UNCHANGED <<sysmods, ns, stack, exc, flags, env, ncalls, fsVars, db, vres, oper>>

\* verification = verify_migration(), after a migrate_data() that returned
CliVerify ==
    /\ call.pc = "migrating"
    /\ mg.ret = "returned"
    /\ VerifyCall

\* return verification["success"]; except Exception: return False
CliReturn ==
    /\ call.pc = "migrating"
    /\ mg.pc = "done"
    /\ mg.ret = "raised" \/ (vres.done /\ vres.n = mg.n)
    /\ call' = [call EXCEPT
                   !.pc = "done",
                   !.ret = IF mg.ret = "returned" /\ ~vres.raised /\ vres.success
                           THEN "succeeded" ELSE "failed"]
    /\ UNCHANGED <<sysmods, ns, stack, exc, flags, env, ncalls, fsVars, dbVars>>

\* the process ends: sys.exit(1) of the failed imports gives status 1; main()
\* prints what migrate() returned and returns None on every path, which
\* gives status 0
CliExit ==
    /\ stack = <<>>
    /\ IF call.pc = "load" /\ exc # "none"
       THEN /\ call' = [call EXCEPT !.pc = "exited", !.ret = "import failed"]
            /\ oper' = [oper EXCEPT !.ret = PyInt(1)]
       ELSE /\ call.pc = "done"
            /\ call' = [call EXCEPT !.pc = "exited"]
            /\ oper' = [oper EXCEPT !.ret = PyInt(0)]
    /\ UNCHANGED <<sysmods, ns, stack, exc, flags, env, ncalls, fsVars,
                   db, txn, pending, mg, vres, session>>

\* the disks and tables a run finds: no file; the JSON sources of an
\* installation that never used the database; the same beside a database
\* file, empty or in use
InitCli ==
    /\ \/ /\ fs \in {NoFiles} \cup SessionDisks
          /\ db = EmptyDB
       \/ /\ fs \in {create_all(f) : f \in SessionDisks}
          /\ db \in {EmptyDB, SeededDB}
    /\ clock = 0
    /\ wr = [w \in Writers |-> IdleWriter]
    /\ rd = IdleReader
    /\ ncalls = 0
    /\ txn = db
    /\ pending = NoPending
    /\ mg = IdleMigration
    /\ vres = NoVerification
    /\ session = NoSession
    /\ oper = NoOp
    /\ sysmods = [m \in Modules |-> "absent"]
    /\ ns = [m \in Modules |-> Unbound]
    /\ stack = <<>>
    /\ exc = "none"
    /\ flags = [data_manager |-> "unset", auth |-> "unset", admin_db |-> "unset"]
    /\ env \in {[sqlalchemy |-> b, entry |-> "none", reloads |-> 0] : b \in BOOLEAN}
    /\ call = IdleCall

NextCli ==
    \/ \E argv \in CommandLines : CliRun(argv)
    \/ ExecDef
    \/ ExecFlag
    \/ ExecLib
    \/ ExecCreateAll
    \/ ImportEnter
    \/ ImportBind
    \/ ImportMissing
    \/ CatchImportError
    \/ FailModule
    \/ FinishModule
    \/ ExecExit
    \/ CliMain
    \/ CliBackup
    \/ CliMigrateData
    \/ \E fault \in BOOLEAN : MigrateUsers(fault)
    \/ \E fault \in BOOLEAN : MigrateQuestions(fault)
    \/ \E fault \in BOOLEAN : MigrateScores(fault)
    \/ \E fault \in BOOLEAN : MigrateSettings(fault)
    \/ \E fault \in BOOLEAN : MigrateCommit(fault)
    \/ MigrateExcept
    \/ MigrateFinally
    \/ CliVerify
    \/ CliReturn
    \/ CliExit

SpecCli == InitCli /\ [][NextCli]_vars

\* C23: in a run of the script every JSON source on the disk has its copy in
\* the backup directory before migrate_data() is called when --no-backup is
\* not given, and a run with --no-backup creates no backup
C23_BackupUnlessSkipped ==
    oper.fn = "main" =>
        /\ ("no_backup" \notin oper.arg /\ call.pc = "migrating") =>
              \A p \in SourcePaths :
                  Exists(oper.fs0, p) =>
                      /\ Exists(fs, MigrationBackup(p, oper.now))
                      /\ fs[MigrationBackup(p, oper.now)] = oper.fs0[p]
        /\ "no_backup" \in oper.arg => MigrationBackups(fs) = MigrationBackups(oper.fs0)

\* C24: a run without --force migrates exactly when there was no database
\* file before the run, so the first run on JSON sources migrates; a run
\* with --force migrates whether there was one or not
C24_MigratesUnlessStoreExisted ==
    (oper.fn = "main" /\ call.pc = "exited" /\ call.ret # "import failed") =>
        IF "force" \in oper.arg
        THEN call.ret # "refused"
        ELSE (call.ret # "refused") <=> ~Exists(oper.fs0, DATABASE_PATH)

\* C25: the exit status of the run is the success status 0 only when the
\* migration committed and the verification succeeded, and a failure status
\* when the migration raised, the verification found a mismatch or the run
\* was refused
C25_ExitStatusTellsSuccess ==
    (oper.fn = "main" /\ call.pc = "exited") =>
        (oper.ret = PyInt(0) <=> call.ret = "succeeded")

\* the records of the scores document of f
ScoreRecords(f) ==
    IF ~Exists(f, SCORES_FILE) THEN <<>>
    ELSE LET d == Loads(f[SCORES_FILE]) IN
         IF d.t = "list" THEN d.v ELSE <<>>

\* record r carries no id migrate_data keeps ("if not score_id")
Idless(r) == r.t = "obj" /\ ~Truthy(Get(r.v, "id", PyNone))

\* two id-less records of one username and one timestamp
Twins(recs) ==
    \E i, j \in DOMAIN recs :
        /\ i # j
        /\ Idless(recs[i]) /\ Idless(recs[j])
        /\ Get(recs[i].v, "username", PyNone) = Get(recs[j].v, "username", PyNone)
        /\ Get(recs[i].v, "timestamp", PyNone) = Get(recs[j].v, "timestamp", PyNone)

\* C32: the id migrate_data gives a source score without id is a function of
\* the record's username and timestamp string alone (an id that is given is
\* kept); so when the scores document holds two id-less records of one
\* username and one timestamp, the call raises, without an injected fault
\* it raises IntegrityError in the commit and nowhere earlier, and nothing
\* the call added stays: users, questions and settings are rolled back too.
C32_TwinScoresRollBackAll ==
    /\ [](LET recs == ScoreRecords(mg.fs0) IN
            /\ (mg.pc \in {"settings", "commit"}) =>
                  /\ Len(pending.scores) = Len(recs)
                  /\ \A i \in DOMAIN recs :
                        pending.scores[i].id =
                            IF Idless(recs[i])
                            THEN Md5Id(Get(recs[i].v, "username", PyNone),
                                       Get(recs[i].v, "timestamp", PyNone))
                            ELSE recs[i].v.id
                  /\ \A i, j \in DOMAIN recs :
                        (Idless(recs[i]) /\ Idless(recs[j])) =>
                            (pending.scores[i].id = pending.scores[j].id
                                <=> /\ Get(recs[i].v, "username", PyNone)
                                        = Get(recs[j].v, "username", PyNone)
                                    /\ Get(recs[i].v, "timestamp", PyNone)
                                        = Get(recs[j].v, "timestamp", PyNone))
            /\ (Twins(recs) /\ mg.pc \in {"finally", "done"}) =>
                  /\ mg.ret = "raised"
                  /\ ~mg.injected => mg.err = "IntegrityError"
                  /\ db = mg.db0 /\ txn = mg.db0 /\ pending = NoPending)
    /\ [][(Twins(ScoreRecords(mg.fs0)) /\ mg'.pc = "except" /\ mg.pc # "except"
              /\ ~mg'.injected) =>
            (mg.pc = "commit" /\ mg'.err = "IntegrityError")]_vars

\* one user, four settings and twin scores into the empty database: the
\* first score was inserted after the user, the second was refused, and the
\* tables are empty again
C32_Witness ==
    /\ Twins(ScoreRecords(mg.fs0))
    /\ mg.pc = "done" /\ mg.ret = "raised" /\ mg.err = "IntegrityError"
    /\ mg.stats = [users |-> 1, questions |-> 0, scores |-> 2, settings |-> 4]
    /\ mg.rolled = 2
    /\ mg.db0 = EmptyDB /\ db = EmptyDB

(***************************************************************************)
(* Migration of sources of which at least one does not parse.              *)
(***************************************************************************)
\* a source file: there with a document, or cut short; users.json may
\* also be missing
SoundOrCut(tbl) ==
    LET doc == CASE tbl = "users" ->
                      PyDict(<< <<PyStr("alice"), UserRec(PyStr("h"), T1, PyNone)>> >>)
                 [] tbl = "questions" ->
                      PyList(<<QuestionRec(PyInt(1), PyStr("e")),
                               QuestionRec(Absent, PyStr("e"))>>)
                 [] tbl = "scores" ->
                      PyList(<<ScoreRec(PyStr("s1"), "alice", T1),
                               ScoreRec(Absent, "alice", T2)>>)
                 [] tbl = "settings" ->
                      PyDict(<< <<PyStr("passing_score"), PyInt(80)>> >>)
    IN  { [present |-> TRUE, text |-> Dumps(doc)],
          [present |-> TRUE, text |-> CorruptText] }
            \cup (IF tbl = "users"
                  THEN {[present |-> FALSE, text |-> <<>>]} ELSE {})

\* the entities whose source file is there and holds no JSON document
Unparsed(f) ==
    {tbl \in DOMAIN NoStats :
        Exists(f, SourceFile(tbl)) /\ Loads(f[SourceFile(tbl)]).t = "error"}

CutDisks ==
    {d \in {DiskOf([users |-> u, questions |-> q, scores |-> s, settings |-> t]) :
                u \in SoundOrCut("users"), q \in SoundOrCut("questions"),
                s \in SoundOrCut("scores"), t \in SoundOrCut("settings")} :
        Unparsed(d) # {}}

InitUnparsed ==
    /\ fs \in CutDisks
    /\ clock = 0
    /\ wr = [w \in Writers |-> IdleWriter]
    /\ rd = IdleReader
    /\ ncalls = 0
    /\ DBIdle
    /\ LoadIdle

SpecUnparsed == InitUnparsed /\ [][NextMig]_vars

\* the pass of entity tbl is over
PassedPhase(tbl) ==
    \/ mg.pc \in {"commit", "finally", "done"} /\ mg.ret = "returned"
    \/ \E i, j \in DOMAIN Tables : i < j /\ Tables[i] = tbl /\ Tables[j] = mg.pc

\* C31: a source file that exists and does not parse is migrated as an empty
\* document: its pass adds no object and raises nothing (only a failing open
\* of the file does), the call counts 0 records for it, the other entities
\* are committed with their counts and, into a fresh destination, the call
\* returns; the file stays as it was and a quarantine backup holds its text;
\* a following verify_migration counts 0 records and 0 rows for it, and
\* after a migration into a fresh destination reports success = true.
C31_UnparsedSourceCountsAsEmpty ==
    /\ [](\A tbl \in Unparsed(mg.fs0) :
            /\ mg.stats[tbl] = 0
            /\ pending[tbl] = <<>>
            /\ db[tbl] = {} /\ txn[tbl] = {}
            /\ fs[SourceFile(tbl)] = mg.fs0[SourceFile(tbl)]
            /\ PassedPhase(tbl) =>
                  \E b \in Backups(fs) :
                      b.base = SourceFile(tbl).base /\ fs[b] = fs[SourceFile(tbl)]
            /\ (vres.done /\ vres.n = mg.n) =>
                  (vres.json[tbl] = 0 /\ vres.db[tbl] = 0))
    /\ []((Unparsed(mg.fs0) # {} /\ mg.pc = "done") =>
            /\ mg.ret = "returned" =>
                  \A e \in DOMAIN NoStats :
                      /\ mg.stats[e] = SourceCount(mg.fs0, e)
                      /\ Cardinality(db[e]) = Cardinality(mg.db0[e]) + mg.stats[e]
            /\ (mg.db0 = EmptyDB /\ ~mg.injected) => mg.ret = "returned"
            /\ (mg.db0 = EmptyDB /\ mg.ret = "returned" /\ vres.done /\ vres.n = mg.n) =>
                  vres.success)
    /\ [][(mg.pc \in Unparsed(mg.fs0) /\ mg'.pc = "except") => mg'.injected]_vars

\* scores.json is cut short, users.json holds alice: the call returned 1 user
\* and 0 scores, the backup is there, the verification succeeded
C31_Witness ==
    /\ Unparsed(mg.fs0) = {"scores"}
    /\ mg.pc = "done" /\ mg.ret = "returned"
    /\ mg.stats.users = 1 /\ mg.stats.scores = 0
    /\ Cardinality(db.users) = 1 /\ db.scores = {}
    /\ \E b \in Backups(fs) : b.base = SCORES_FILE.base /\ fs[b] = CorruptText
    /\ vres.done /\ vres.n = mg.n /\ vres.success /\ vres.json.scores = 0


(***************************************************************************)
(* The operations of database.operations step by step: the session is      *)
(* taken, save_quiz_score calls get_all_settings, the body runs, the        *)
(* finally clause releases the session.                                     *)
(***************************************************************************)
\* session = get_db_session(), the first statement of every operation
OperationAcquire(fn, a) ==
    /\ Quiet
    /\ mg.pc \in {"idle", "done"}
    /\ call.pc = "idle"
    /\ ncalls < MaxCalls
    /\ session' = GetDbSession(session)
    /\ call' = [IdleCall EXCEPT !.pc = "session", !.fn = fn]
    /\ oper' = [NoOp EXCEPT !.fn = fn, !.backend = "relational", !.arg = a,
                            !.db0 = db, !.fs0 = fs, !.now = clock]
    /\ ncalls' = ncalls + 1
    /\ UNCHANGED <<db, txn, pending, mg, vres, fsVars, sysmods, ns, stack, exc, flags, env>>

\* save_quiz_score: settings = get_all_settings(), a whole call of that
\* operation: it takes the registered session, queries and removes it
NestedSettings ==
    /\ call.pc = "session"
    /\ call.fn = "save_quiz_score"
    /\ session' = get_all_settings(db, session, clock, FALSE).session
    /\ call' = [call EXCEPT !.pc = "nested"]
    /\ UNCHANGED <<db, txn, pending, mg, vres, oper, fsVars, ncalls,
                   sysmods, ns, stack, exc, flags, env>>

\* the try block and the except clause of the operation, on the session
\* object the function holds; fault: the database refuses the commit
OperationBody(fault) ==
    /\ \/ call.pc = "session" /\ call.fn # "save_quiz_score"
       \/ call.pc = "nested"
    /\ LET r == RelOp(call.fn, oper.arg, db, session, clock, ncalls - 1, fault) IN
        /\ db' = r.db
        /\ txn' = r.db
        /\ oper' = [oper EXCEPT !.ret = r.ret, !.exc = r.exc, !.fault = fault]
        /\ session' = IF session.registered
                      THEN [session EXCEPT !.intxn = (r.exc # "none")]
                      ELSE r.session
    /\ call' = [call EXCEPT !.pc = "body"]
    /\ UNCHANGED <<pending, mg, vres, fsVars, ncalls, sysmods, ns, stack, exc, flags, env>>

\* finally: close_db_session()
OperationRelease ==
    /\ call.pc = "body"
    /\ session' = CloseDbSession(session)
    /\ call' = IdleCall
    /\ UNCHANGED <<db, txn, pending, mg, vres, oper, fsVars, ncalls,
                   sysmods, ns, stack, exc, flags, env>>

NextNested ==
    \/ \E fn \in RelationalOps : \E a \in ArgsOf("relational", fn) : OperationAcquire(fn, a)
    \/ NestedSettings
    \/ \E fault \in BOOLEAN : OperationBody(fault)
    \/ OperationRelease

SpecNested == InitOps /\ [][NextNested]_vars

\* C33: from the statement that takes the session to the operation's own
\* close_db_session, the registry holds the session the operation took; no
\* nested operation removes it (save_quiz_score's get_all_settings included).
C33_SessionKeptUntilOwnClose ==
    call.pc \in {"session", "nested", "body"} => session.registered


(***************************************************************************)
(* Successive starts of the application: each process imports data_manager *)
(* (and may run its body again, which is how its USE_DATABASE becomes      *)
(* True) and calls initialize_data_files(); the files and the database     *)
(* stay.                                                                   *)
(***************************************************************************)
\* a new process of the application: nothing is imported yet, the session
\* registry is new, `import modules.data_manager` begins
ProcessStart ==
    /\ stack = <<>>
    /\ exc = "none"
    /\ call.pc \in {"idle", "done"}
    /\ mg.pc \in {"idle", "done"}
    /\ Quiet
    /\ ncalls < MaxCalls
    /\ sysmods' = [m \in Modules |-> "absent"]
    /\ ns' = [m \in Modules |-> Unbound]
    /\ flags' = [data_manager |-> "unset", auth |-> "unset", admin_db |-> "unset"]
    /\ env' = [env EXCEPT !.entry = "data_manager", !.reloads = 0]
    /\ stack' = <<[mod |-> "__main__", pos |-> 1, reload |-> FALSE]>>
    /\ call' = IdleCall
    /\ session' = NoSession
    /\ UNCHANGED <<exc, ncalls, fsVars, db, txn, pending, mg, vres, oper>>

\* the documents an installation that used the file store may have left:
\* users.json with the default admin, or with alice alone (the admin was
\* renamed or deleted), or none; the questions of the question bank, or none
StartupDisks ==
    LET no == [present |-> FALSE, text |-> <<>>]
        doc(d) == [present |-> TRUE, text |-> Dumps(d)]
    IN  {DiskOf([users |-> u, questions |-> q, scores |-> no, settings |-> no]) :
            u \in {no, doc(DefaultUsers(0)),
                   doc(PyDict(<< <<PyStr("alice"), UserRec(PyStr("h"), T1, PyNone)>> >>))},
            q \in {no, doc(DefaultQuestions)}}

InitStartup ==
    /\ fs \in StartupDisks
    /\ clock = 0
    /\ wr = [w \in Writers |-> IdleWriter]
    /\ rd = IdleReader
    /\ ncalls = 0
    /\ DBIdle
    /\ sysmods = [m \in Modules |-> "absent"]
    /\ ns = [m \in Modules |-> Unbound]
    /\ stack = <<>>
    /\ exc = "none"
    /\ flags = [data_manager |-> "unset", auth |-> "unset", admin_db |-> "unset"]
    /\ env \in {[sqlalchemy |-> b, entry |-> "none", reloads |-> 0] : b \in BOOLEAN}
    /\ call = IdleCall

NextStartup ==
    \/ ProcessStart
    \/ Reload
    \/ ExecDef
    \/ ExecFlag
    \/ ExecLib
    \/ ExecCreateAll
    \/ ImportEnter
    \/ ImportBind
    \/ ImportMissing
    \/ CatchImportError
    \/ FailModule
    \/ FinishModule
    \/ InitializeCall
    \/ InitializeImport
    \/ InitializeRun
    \/ InitializeMigrate
    \/ \E fault \in BOOLEAN : MigrateUsers(fault)
    \/ \E fault \in BOOLEAN : MigrateQuestions(fault)
    \/ \E fault \in BOOLEAN : MigrateScores(fault)
    \/ \E fault \in BOOLEAN : MigrateSettings(fault)
    \/ \E fault \in BOOLEAN : MigrateCommit(fault)
    \/ MigrateExcept
    \/ MigrateFinally
    \/ InitializeReturn

SpecStartup == InitStartup /\ [][NextStartup]_vars

\* C34: in relational mode the start-up migration runs at most once over
\* the starts of the application: once a call of initialize_data_files has
\* committed a migration, no later call starts migrate_data again, and every
\* later call returns, whether or not the users document names "admin".
C34_StartupMigratesOnce ==
    /\ ~(mg.n > 1 /\ mg.db0 # EmptyDB)
    /\ (/\ call.fn = "initialize_data_files" /\ call.pc = "done"
        /\ mg.n > 0 /\ mg.db0 # EmptyDB /\ ~mg.injected) => call.ret = "returned"


(***************************************************************************)
(* load_users and save_users of data_manager on both backends.             *)
(***************************************************************************)
\* User.to_dict(): the columns, the two DateTime columns as strings
UserToDict(row) ==
    LET stamp(x) == CASE x.t = "now" -> Strftime(x.v)
                      [] x.t = "datetime" -> PyStr(x.v)
                      [] OTHER -> PyNone
    IN  PyObj([row EXCEPT !.created_at = stamp(row.created_at),
                          !.last_login = stamp(row.last_login)])

\* get_all_users(): {user.username: user.to_dict() for user in users}
get_all_users(t) ==
    LET rows == SeqOf(t.users)
    IN  PyDict([i \in DOMAIN rows |-> <<rows[i].username, UserToDict(rows[i])>>])

\* load_users(): the dict and the disk after the read
load_users(backend, t, f, now) ==
    IF backend = "relational" THEN [ret |-> get_all_users(t), fs |-> f]
    ELSE ReadJson(f, USER_DB_FILE, PyDict(<<>>), now)

\* the loop of save_users: save_user for each item, success stays False
\* once a call has returned False
RECURSIVE SaveEach(_, _, _, _, _, _)
SaveEach(t, s, items, now, fault, success) ==
    IF items = <<>> THEN Outcome(t, PyBool(success), "none", s)
    ELSE LET r == save_user(t, s, Head(items)[1].v, Head(items)[2].v, now, fault)
         IN  SaveEach(r.db, r.session, Tail(items), now, fault,
                      success /\ r.ret = PyBool(TRUE))

\* save_users(users): one save_user per item, or the whole document written
\* to users.json.  fault: the database refuses the commits, the disk fails
save_users(backend, t, s, f, users, now, fault) ==
    IF backend = "relational"
    THEN LET r == SaveEach(t, s, users.v, now, fault, TRUE)
         IN  [db |-> r.db, fs |-> f, ret |-> r.ret, exc |-> r.exc, session |-> r.session]
    ELSE LET r == TryWriteJson(f, USER_DB_FILE, users, now, fault)
         IN  [db |-> t, fs |-> r.fs, ret |-> r.ret, exc |-> r.exc, session |-> s]

\* dict users without the item of username
WithoutUser(users, username) ==
    PyDict(SelectSeq(users.v, LAMBDA it : it[1] # PyStr(username)))

\* the dicts save_users is called with: what load_users() returns now, that
\* dict without bob, with a new user carol, with alice renamed
UsersToSave(backend, t, f, now) ==
    LET U == load_users(backend, t, f, now).ret
    IN  {U, WithoutUser(U, "bob"),
         PyDict(WithoutUser(U, "carol").v
                    \o << <<PyStr("carol"), UserRec(PyStr("h"), T1, PyNone)>> >>)}
            \cup {PyDict(<< <<PyStr("alice"), PyObj([name |-> PyStr("Alice A.")])>> >>)}

\* one call of load_users() or of save_users(users)
UsersCall(fn, backend, users, fault) ==
    /\ Quiet
    /\ mg.pc = "idle"
    /\ ncalls < MaxCalls
    /\ ncalls' = ncalls + 1
    /\ IF fn = "load_users"
       THEN LET r == load_users(backend, db, fs, clock) IN
            /\ ~fault
            /\ users = PyNone
            /\ fs' = r.fs
            /\ oper' = [fn |-> fn, backend |-> backend, arg |-> NoArg, ret |-> r.ret,
                        exc |-> "none", fault |-> FALSE, db0 |-> db, fs0 |-> fs,
                        now |-> clock]
            /\ UNCHANGED <<db, txn, session>>
       ELSE LET r == save_users(backend, db, session, fs, users, clock, fault) IN
            /\ fs' = r.fs
            /\ db' = r.db
            /\ txn' = r.db
            /\ session' = r.session
            /\ oper' = [fn |-> fn, backend |-> backend,
                        arg |-> [NoArg EXCEPT !.data = users], ret |-> r.ret,
                        exc |-> r.exc, fault |-> fault, db0 |-> db, fs0 |-> fs,
                        now |-> clock]
    /\ UNCHANGED <<pending, mg, vres, clock, wr, rd, loadVars>>

\* users.json and the users table of an installation with alice and bob
InitUsers ==
    /\ fs = Put(NoFiles, USER_DB_FILE,
                Dumps(PyDict(<< <<PyStr("alice"), UserRec(PyStr("h"), T1, PyNone)>>,
                                <<PyStr("bob"), UserRec(PyStr("h"), T1, T2)>> >>)))
    /\ db = SeededDB
    /\ clock = 0
    /\ wr = [w \in Writers |-> IdleWriter]
    /\ rd = IdleReader
    /\ ncalls = 0
    /\ txn = db
    /\ pending = NoPending
    /\ mg = IdleMigration
    /\ vres = NoVerification
    /\ session = NoSession
    /\ oper = NoOp
    /\ LoadIdle

NextUsers ==
    \/ \E backend \in {"file", "relational"} : UsersCall("load_users", backend, PyNone, FALSE)
    \/ \E backend \in {"file", "relational"}, fault \in BOOLEAN :
          \E users \in UsersToSave(backend, db, fs, clock) :
              UsersCall("save_users", backend, users, fault)
    \/ Tick

SpecUsers == InitUsers /\ [][NextUsers]_vars

Usernames(users) == {users.v[i][1] : i \in DOMAIN users.v}

\* C35: after save_users(U), with no failure of the disk or the database,
\* load_users() returns the users of U and no others on both backends (the
\* file backend: the document U itself), and the call has returned True when
\* U was what load_users() returned before it.
C35_SaveUsersThenLoad ==
    (oper.fn = "save_users" /\ ~oper.fault) =>
        LET U == oper.arg.data
            got == load_users(oper.backend, db, fs, clock).ret
            before == load_users(oper.backend, oper.db0, oper.fs0, oper.now).ret
        IN  /\ Usernames(got) = Usernames(U)
            /\ oper.backend = "file" => got = U
            /\ U = before => oper.ret = PyBool(TRUE)


(***************************************************************************)
(* Quizzes saved, the passing score changed, the statistics asked for.     *)
(***************************************************************************)
\* a quiz result is saved
ScoreWrite(backend, a, fault) ==
    IF backend = "file" THEN FileCall("save_quiz_score", a, fault)
    ELSE RelationalCall("save_quiz_score", a, fault)

\* the administrator changes passing_score: save_settings of the settings
\* page, or set_setting
ThresholdChange(backend, fn, a, fault) ==
    IF backend = "file" THEN fn = "save_settings" /\ FileCall(fn, a, fault)
    ELSE RelationalCall(fn, a, fault)

NextPassRate ==
    \/ \E backend \in {"file", "relational"}, fault \in BOOLEAN :
          \E a \in ArgsOf(backend, "save_quiz_score") : ScoreWrite(backend, a, fault)
    \/ \E backend \in {"file", "relational"}, fn \in {"save_settings", "set_setting"},
          fault \in BOOLEAN :
          \E a \in ArgsOf(backend, fn) : ThresholdChange(backend, fn, a, fault)
    \/ \E backend \in {"file", "relational"}, username \in {"none", "alice", "bob"} :
          StatisticsCall("get_score_statistics", backend, username)
    \/ Tick

SpecPassRate == InitOps /\ [][NextPassRate]_vars

\* the scores get_score_statistics has counted, in the order of the store
CountedScores(o) ==
    LET all == load_scores(o.backend, o.db0, o.fs0, o.now).ret.v
    IN  IF o.arg.username = "none" THEN all
        ELSE SelectSeq(all, LAMBDA s : s.v.username = PyStr(o.arg.username))

\* C36: pass_rate of get_score_statistics is 100 * (the number of counted
\* scores whose stored passed flag is true) / total_attempts, whatever
\* scores were written and whatever passing_score was set in between
C36_PassRateFromStoredFlags ==
    (oper.fn = "get_score_statistics" /\ oper.exc = "none"
        /\ oper.ret.total_attempts > 0) =>
        LET counted == CountedScores(oper)
            flagged == SumOf([i \in DOMAIN counted |->
                                 IF Get(counted[i].v, "passed", PyBool(FALSE)) = PyBool(TRUE)
                                 THEN 1 ELSE 0])
        IN  /\ oper.ret.total_attempts = Len(counted)
            /\ oper.ret.pass_rate.num * Len(counted)
                  = 100 * flagged * oper.ret.pass_rate.den


(***************************************************************************)
(* get_user_scores: the function of data_manager and the function of      *)
(* database.operations, over a scores.json and the scores table that a    *)
(* migration makes of it.                                                  *)
(***************************************************************************)
MaxScores == 3         \* scores in the store

\* "limit and isinstance(limit, int) and limit > 0": the number of entries
\* to keep, -1 where the result is not cut (True is an int, and is 1)
LimitOf(limit) ==
    IF Truthy(limit) /\ limit.t \in {"int", "bool"}
    THEN LET n == IF limit.t = "bool" THEN 1 ELSE limit.v
         IN  IF n > 0 THEN n ELSE -1
    ELSE -1

\* seq[:limit]
Cut(seq, limit) ==
    LET n == LimitOf(limit)
    IN  IF n < 0 \/ n >= Len(seq) THEN seq ELSE SubSeq(seq, 1, n)

\* the else branch of data_manager.get_user_scores
FileUserScores(f, username, limit, now) ==
    LET r == ReadJson(f, SCORES_FILE, PyList(<<>>), now)
        user_scores == SelectSeq(r.ret.v, LAMBDA s : s.v.username = PyStr(username))
    IN  FileOutcome(r.fs, PyList(Cut(SortedDesc(user_scores), limit)), "none")

\* data_manager.get_user_scores(username, limit): with USE_DATABASE true it
\* calls the global name get_user_scores, which is this function, until the
\* interpreter's frame limit is reached
RECURSIVE data_manager_get_user_scores(_, _, _, _, _, _)
data_manager_get_user_scores(useDb, f, username, limit, now, depth) ==
    IF useDb
    THEN IF depth >= RecursionLimit THEN FileOutcome(f, PyNone, "RecursionError")
         ELSE data_manager_get_user_scores(useDb, f, username, limit, now, depth + 1)
    ELSE FileUserScores(f, username, limit, now)

\* the place in time of a row's timestamp
RowRank(row) == StrRank(ScoreToDict(row).v.timestamp)

\* ORDER BY timestamp DESC over the rows S: the orders SQL allows, rows of
\* one timestamp in any order
DescOrders(S) ==
    {q \in [1..Cardinality(S) -> S] :
        /\ \A i, j \in DOMAIN q : i # j => q[i] # q[j]
        /\ \A i, j \in DOMAIN q : i < j => RowRank(q[i]) >= RowRank(q[j])}

\* operations.get_user_scores(username, limit); order: the order the query
\* returns the rows in
get_user_scores(t, s, username, limit, order) ==
    LET held == GetDbSession(s)
        n == LimitOf(limit)
        scores == IF n < 0 \/ n >= Len(order) THEN order ELSE SubSeq(order, 1, n)
    IN  Outcome(t, PyList([i \in DOMAIN scores |-> ScoreToDict(scores[i])]), "none",
                CloseDbSession(held))

\* the rows of username
RowsOfUser(t, username) == {r \in t.scores : r.username = PyStr(username)}

\* the values get_user_scores is called with as limit
Limits == {PyNone, PyInt(0), PyInt(-1), PyInt(1), PyInt(2), PyBool(TRUE), PyStr("2")}

\* a call of data_manager.get_user_scores
UserScoresCall(useDb, username, limit) ==
    /\ Quiet
    /\ mg.pc = "idle"
    /\ ncalls < MaxCalls
    /\ ncalls' = ncalls + 1
    /\ LET r == data_manager_get_user_scores(useDb, fs, username, limit, clock, 1) IN
        /\ fs' = r.fs
        /\ oper' = [fn |-> "get_user_scores",
                    backend |-> IF useDb THEN "relational" ELSE "file",
                    arg |-> [NoArg EXCEPT !.username = username, !.data = limit],
                    ret |-> r.ret, exc |-> r.exc, fault |-> FALSE, db0 |-> db,
                    fs0 |-> fs, now |-> clock]
    /\ UNCHANGED <<db, txn, session, pending, mg, vres, clock, wr, rd, loadVars>>

\* a call of operations.get_user_scores, as the pages make it
OperationsUserScoresCall(username, limit) ==
    /\ Quiet
    /\ mg.pc = "idle"
    /\ ncalls < MaxCalls
    /\ ncalls' = ncalls + 1
    /\ \E order \in DescOrders(RowsOfUser(db, username)) :
          LET r == get_user_scores(db, session, username, limit, order) IN
            /\ session' = r.session
            /\ oper' = [fn |-> "get_user_scores", backend |-> "operations",
                        arg |-> [NoArg EXCEPT !.username = username, !.data = limit],
                        ret |-> r.ret, exc |-> r.exc, fault |-> FALSE, db0 |-> db,
                        fs0 |-> fs, now |-> clock]
    /\ UNCHANGED <<db, txn, fs, pending, mg, vres, clock, wr, rd, loadVars>>

\* scores.json: up to MaxScores scores of alice and bob, in the order they
\* were appended, of two days
ScoreHistories ==
    UNION {{PyList([i \in 1..n |-> ScoreRec(PyStr(<<"s1", "s2", "s3", "s4">>[i]),
                                            who[i], day[i])]) :
               who \in [1..n -> {"alice", "bob"}], day \in [1..n -> {T1, T2}]} :
           n \in 0..MaxScores}

\* the scores table migrate_data makes of a scores.json
MigratedScores(doc) ==
    [EmptyDB EXCEPT !.scores = {ScoreRow(doc.v[i].v, 0).row : i \in DOMAIN doc.v}]

InitUserScores ==
    /\ \E doc \in ScoreHistories :
          /\ fs = Put(NoFiles, SCORES_FILE, Dumps(doc))
          /\ db = MigratedScores(doc)
    /\ clock = 0
    /\ wr = [w \in Writers |-> IdleWriter]
    /\ rd = IdleReader
    /\ ncalls = 0
    /\ txn = db
    /\ pending = NoPending
    /\ mg = IdleMigration
    /\ vres = NoVerification
    /\ session = NoSession
    /\ oper = NoOp
    /\ LoadIdle

NextUserScores ==
    \/ \E useDb \in BOOLEAN, username \in {"alice", "bob"}, limit \in Limits :
          UserScoresCall(useDb, username, limit)
    \/ \E username \in {"alice", "bob"}, limit \in Limits :
          OperationsUserScoresCall(username, limit)

SpecUserScores == InitUserScores /\ [][NextUserScores]_vars

\* the ids of a list of scores, in its order
IdsOf(list) == [i \in DOMAIN list.v |-> list.v[i].v.id]

\* the stored scores of the user a call was made for
StoredOf(o) ==
    LET all == ReadJson(o.fs0, SCORES_FILE, PyList(<<>>), o.now).ret.v
    IN  {all[i] : i \in {j \in DOMAIN all : all[j].v.username = PyStr(o.arg.username)}}

\* C37: get_user_scores(username, limit) returns scores of that user only,
\* newest first by timestamp; the first limit of them when limit is a
\* positive integer, all of them when limit is None, zero or negative; and
\* the relational backend returns the sequence the file backend returns for
\* the same stored scores
C37_UserScoresNewestFirstOnBothBackends ==
    oper.fn = "get_user_scores" =>
        LET S == StoredOf(oper)
            limit == oper.arg.data
            got == oper.ret.v
            file == FileUserScores(oper.fs0, oper.arg.username, limit, oper.now).ret
        IN  /\ oper.exc = "none"
            /\ \A i \in DOMAIN got : got[i].v.id \in {x.v.id : x \in S}
            /\ \A i, j \in DOMAIN got : i # j => got[i].v.id # got[j].v.id
            /\ \A i, j \in DOMAIN got :
                  i < j => StrRank(got[i].v.timestamp) >= StrRank(got[j].v.timestamp)
            /\ \A x \in S : (\A i \in DOMAIN got : got[i].v.id # x.v.id) =>
                  \A i \in DOMAIN got :
                      StrRank(got[i].v.timestamp) >= StrRank(x.v.timestamp)
            /\ (limit.t = "int" /\ limit.v > 0) =>
                  Len(got) = (IF limit.v < Cardinality(S) THEN limit.v ELSE Cardinality(S))
            /\ (limit = PyNone \/ (limit.t = "int" /\ limit.v <= 0)) =>
                  Len(got) = Cardinality(S)
            /\ IdsOf(oper.ret) = IdsOf(file)

=============================================================================
